---- MODULE Spec2Model ----
(***************************************************************************)
(* Stage-submission handler of the placement platform                      *)
(* (POST /api/placements/[id]/stage/[stageName]) together with the pure    *)
(* stage-policy functions it calls: calculatePassStatus,                   *)
(* determineNextStage, isLastStage, assignTrack, calculateDetailedScore    *)
(* and findTestForStage.                                                   *)
(*                                                                         *)
(* Three specifications are defined over the same variables:               *)
(*   Spec    the handler: requests run as interleaved sequences of their   *)
(*           awaited database calls against one application record;       *)
(*   SpecFn  the pure functions applied to inputs drawn from bounded sets; *)
(*   SpecAll a behaviour of either kind.                                   *)
(***************************************************************************)
EXTENDS Integers, Sequences, FiniteSets, TLC

(***************************************************************************)
(* Bounds                                                                  *)
(***************************************************************************)
\* number of stage-submission requests in one behaviour
MaxReq == 2
\* largest number of stage results handed to assignTrack in SpecFn
MaxStages == 2
\* largest raw score handed to calculatePassStatus in SpecFn
MaxScore == 3

\* largest number of questions handed to calculateDetailedScore in SpecFn
MaxQuestions == 3
\* largest number of questions of one category handed to
\* calculateDetailedScore in SpecFn
MaxTotal == 40
\* largest number of wrong questions, and of correct answers, in the test
\* data handed to the report builders in SpecFn
MaxWrong == 2
\* largest number of topics in the statistics handed to
\* generateComprehensiveSummary in SpecFn
MaxTopics == 2
MaxReportWrong == 4
MaxReportTotal == 6

(***************************************************************************)
(* Values                                                                  *)
(***************************************************************************)
\* "Infosys" stands for every company other than TCS and Wipro
Companies == {"TCS", "Wipro", "Infosys"}

\* every stage name of the two pipelines, and "bogus" for any other string
StageNames == {"foundation", "advanced", "aptitude", "essay", "coding",
               "voice", "interview", "completed", "bogus"}

\* the absent value (null / undefined) of a string field
Null == "null"

(***************************************************************************)
(* Percentages are JavaScript numbers: (score / total) * 100 is not        *)
(* rounded, so a percentage is kept as the exact fraction num/den.  A      *)
(* stored percentage may be absent (isNull).                               *)
(***************************************************************************)
Pct(n, d) == [isNull |-> FALSE, num |-> n, den |-> d]
NullPct == [isNull |-> TRUE, num |-> 0, den |-> 1]

\* p >= k for a percentage p and an integer k
PctGE(p, k) == p.num >= k * p.den

\* p || 0
OrZero(p) == IF p.isNull THEN Pct(0, 1) ELSE p

\* a + b
PctAdd(a, b) == Pct(a.num * b.den + b.num * a.den, a.den * b.den)

(***************************************************************************)
(* calculatePassStatus                                                     *)
(***************************************************************************)
calculatePassStatusLowFoundation(company, stageName, percentage, score) ==
    IF company = "TCS" /\ stageName = "foundation" THEN PctGE(percentage, 50)
    ELSE IF company = "TCS" /\ stageName = "advanced" THEN PctGE(percentage, 65)
    ELSE IF company = "TCS" /\ stageName = "coding" THEN score >= 2
    ELSE IF company = "Wipro" /\ stageName = "aptitude" THEN PctGE(percentage, 65)
    ELSE IF company = "Wipro" /\ stageName = "essay" THEN PctGE(percentage, 70)
    ELSE IF company = "Wipro" /\ stageName = "coding" THEN score >= 1
    ELSE FALSE

calculatePassStatusDefaultPass(company, stageName, percentage, score) ==
    IF company = "TCS" /\ stageName = "foundation" THEN PctGE(percentage, 60)
    ELSE IF company = "TCS" /\ stageName = "advanced" THEN PctGE(percentage, 65)
    ELSE IF company = "TCS" /\ stageName = "coding" THEN score >= 2
    ELSE IF company = "Wipro" /\ stageName = "aptitude" THEN PctGE(percentage, 65)
    ELSE IF company = "Wipro" /\ stageName = "essay" THEN PctGE(percentage, 70)
    ELSE IF company = "Wipro" /\ stageName = "coding" THEN score >= 1
    ELSE PctGE(percentage, 60)

calculatePassStatus(company, stageName, percentage, score) ==
    IF company = "TCS"
    THEN IF stageName = "foundation" THEN PctGE(percentage, 60)
         ELSE IF stageName = "advanced" THEN PctGE(percentage, 65)
         ELSE IF stageName = "coding" THEN score >= 2
         ELSE FALSE
    ELSE IF company = "Wipro"
    THEN IF stageName = "aptitude" THEN PctGE(percentage, 65)
         ELSE IF stageName = "essay" THEN PctGE(percentage, 70)
         ELSE IF stageName = "coding" THEN score >= 1
         ELSE FALSE
    ELSE FALSE

(***************************************************************************)
(* determineNextStage                                                      *)
(***************************************************************************)
TCSStages == <<"foundation", "advanced", "coding", "interview", "completed">>
WiproStages == <<"aptitude", "essay", "coding", "voice", "interview", "completed">>

\* Array.prototype.indexOf, 1-based; 0 when x is not in the array (JS: -1)
IndexOf(arr, x) ==
    IF \E i \in 1..Len(arr) : arr[i] = x
    THEN CHOOSE i \in 1..Len(arr) : arr[i] = x /\ \A j \in 1..(i - 1) : arr[j] # x
    ELSE 0

StageAfterSkipping(stages, currentStage) ==
    LET next == IndexOf(stages, currentStage) + 2
    IN  IF next <= Len(stages) THEN stages[next] ELSE "completed"

\* stages[currentIndex + 1] || 'completed'
StageAfter(stages, currentStage) ==
    LET next == IndexOf(stages, currentStage) + 1
    IN  IF next <= Len(stages) THEN stages[next] ELSE "completed"

determineNextStage(company, currentStage, isPassed) ==
    IF ~isPassed THEN currentStage
    ELSE IF company = "TCS" THEN StageAfter(TCSStages, currentStage)
    ELSE IF company = "Wipro" THEN StageAfter(WiproStages, currentStage)
    ELSE "completed"

(***************************************************************************)
(* isLastStage                                                             *)
(***************************************************************************)
isLastStageOnlyCompleted(company, stage) ==
    IF company = "TCS" THEN stage = "completed"
    ELSE IF company = "Wipro" THEN stage = "completed"
    ELSE FALSE

isLastStage(company, stage) ==
    IF company = "TCS" THEN stage = "interview" \/ stage = "completed"
    ELSE IF company = "Wipro" THEN stage = "interview" \/ stage = "completed"
    ELSE FALSE

(***************************************************************************)
(* assignTrack                                                             *)
(***************************************************************************)
\* stages.find(pred): the first element satisfying pred; Found(...) tells
\* whether there is one
FirstIndex(stages, name) ==
    CHOOSE i \in 1..Len(stages) :
        stages[i].stageName = name /\ \A j \in 1..(i - 1) : stages[j].stageName # name

Found(stages, name) == \E i \in 1..Len(stages) : stages[i].stageName = name

\* stages.reduce((sum, s) => sum + (s.percentage || 0), 0)
RECURSIVE SumPercentage(_)
SumPercentage(stages) ==
    IF stages = <<>> THEN Pct(0, 1)
    ELSE PctAdd(SumPercentage(SubSeq(stages, 1, Len(stages) - 1)),
                OrZero(stages[Len(stages)].percentage))

assignTrackTCSLowDigital(stages) ==
    IF Found(stages, "coding")
    THEN LET codingPercentage == OrZero(stages[FirstIndex(stages, "coding")].percentage)
         IN  IF PctGE(codingPercentage, 67) THEN "Digital" ELSE "Ninja"
    ELSE "Ninja"

assignTrackTCS(stages) ==
    IF Found(stages, "coding")
    THEN LET codingPercentage == OrZero(stages[FirstIndex(stages, "coding")].percentage)
         IN  IF PctGE(codingPercentage, 83) THEN "Digital"
             ELSE IF PctGE(codingPercentage, 67) THEN "Ninja"
             ELSE "Ninja"
    ELSE "Ninja"

assignTrackWiproLowTurbo(stages) ==
    LET totalPercentage == SumPercentage(stages)
    IN  IF Len(stages) = 0 THEN "Elite"
        ELSE IF totalPercentage.num >= 70 * Len(stages) * totalPercentage.den THEN "Turbo"
        ELSE "Elite"

\* avgPercentage = totalPercentage / stages.length; with no stages it is
\* NaN, and every comparison with NaN is false
assignTrackWipro(stages) ==
    LET totalPercentage == SumPercentage(stages)
    IN  IF Len(stages) = 0 THEN "Elite"
        ELSE IF totalPercentage.num >= 80 * Len(stages) * totalPercentage.den THEN "Turbo"
        ELSE IF totalPercentage.num >= 70 * Len(stages) * totalPercentage.den THEN "Elite"
        ELSE "Elite"

assignTrack(company, stages) ==
    IF company = "TCS" THEN assignTrackTCS(stages)
    ELSE IF company = "Wipro" THEN assignTrackWipro(stages)
    ELSE "Standard"

(***************************************************************************)
(* calculateDetailedScore                                                  *)
(***************************************************************************)
\* answers[question.id]: undefined when the map has no such key
AnswerOf(answers, id) == IF id \in DOMAIN answers THEN answers[id] ELSE Null

\* x is falsy as a string-or-absent value
Falsy(x) == x = Null \/ x = ""

\* question.options.find(opt => opt.isCorrect)
HasCorrectOption(question) ==
    \E i \in 1..Len(question.options) : question.options[i].isCorrect

CorrectOption(question) ==
    question.options[CHOOSE i \in 1..Len(question.options) :
        /\ question.options[i].isCorrect
        /\ \A j \in 1..(i - 1) : ~question.options[j].isCorrect]

\* question.category || 'General'
CategoryOf(question) ==
    IF Falsy(question.category) THEN "General" ELSE question.category

\* a scorer that accepts any submitted answer
IsCorrectAnyAnswer(answers, question) ==
    /\ HasCorrectOption(question)
    /\ AnswerOf(answers, question.id) # Null

\* correctOption && userAnswer === correctOption.text
IsCorrect(answers, question) ==
    /\ HasCorrectOption(question)
    /\ AnswerOf(answers, question.id) = CorrectOption(question).text

WrongEntry(answers, question) ==
    [id            |-> question.id,
     text          |-> question.text,
     category      |-> CategoryOf(question),
     userAnswer    |-> IF Falsy(AnswerOf(answers, question.id))
                       THEN "Not answered"
                       ELSE AnswerOf(answers, question.id),
     correctAnswer |-> IF HasCorrectOption(question) /\ ~Falsy(CorrectOption(question).text)
                       THEN CorrectOption(question).text
                       ELSE "Unknown"]

(***************************************************************************)
(* Math.round((data.correct / data.total) * 100) in IEEE-754 double         *)
(* arithmetic.  A positive double is a record [sig, exp] whose value is     *)
(* the integer written by sig times 2^exp; sig is the 53-bit significand    *)
(* written as five digits in base 2^13, most significant first, the first   *)
(* digit holding the bits above the low 52.                                 *)
(***************************************************************************)
\* number of significand bits of a double
Precision == 53

\* base of the digits: four digits hold 52 bits
DigitBits == 13

Base == 2 ^ DigitBits

Zero == [sig |-> <<0, 0, 0, 0, 0>>, exp |-> 0]

Front(digits) == SubSeq(digits, 1, Len(digits) - 1)

\* digits with every digit but the first brought below Base, the excess
\* carried into the digit before it
RECURSIVE Carry(_)
Carry(digits) ==
    IF Len(digits) = 1 THEN digits
    ELSE LET low   == digits[Len(digits)]
             front == Front(digits)
         IN  Append(Carry([front EXCEPT ![Len(front)] = @ + low \div Base]), low % Base)

\* number of bits of a positive integer
RECURSIVE BitLength(_)
BitLength(n) == IF n = 0 THEN 0 ELSE 1 + BitLength(n \div 2)

\* the smallest e with correct * 2^e >= total
RECURSIVE LeadingShift(_, _)
LeadingShift(correct, total) ==
    IF correct >= total THEN 0 ELSE 1 + LeadingShift(2 * correct, total)

\* digits, whose bits below bit number drop are discarded, rounded to the
\* nearest multiple of 2^drop, ties to the even one; tailAbove and tailHalf
\* say whether what follows the digits is above one half, or is one half,
\* of the lowest bit kept
RoundedSig(digits, drop, tailAbove, tailHalf) ==
    LET low  == digits[Len(digits)]
        unit == 2 ^ drop
        tail == low % unit
        kept == low - tail
        odd  == (low \div unit) % 2 = 1
        up   == IF drop = 0 THEN tailAbove \/ (tailHalf /\ odd)
                ELSE \/ 2 * tail > unit
                     \/ 2 * tail = unit /\ (tailAbove \/ tailHalf \/ odd)
    IN  Carry([digits EXCEPT ![Len(digits)] = kept + (IF up THEN unit ELSE 0)])

\* correct / total, for 0 <= correct <= total and total > 0: long division,
\* thirteen bits at a time, of correct * 2^e by total, then rounding on the
\* remainder
DoubleDiv(correct, total) ==
    IF correct = 0 THEN Zero
    ELSE LET e  == LeadingShift(correct, total)
             r0 == correct * (2 ^ e) - total
             d1 == (r0 * Base) \div total
             r1 == (r0 * Base) % total
             d2 == (r1 * Base) \div total
             r2 == (r1 * Base) % total
             d3 == (r2 * Base) \div total
             r3 == (r2 * Base) % total
             d4 == (r3 * Base) \div total
             r4 == (r3 * Base) % total
         IN  [sig |-> RoundedSig(<<1, d1, d2, d3, d4>>, 0, 2 * r4 > total, 2 * r4 = total),
              exp |-> 0 - e - (Precision - 1)]

\* x * n for an integer 0 <= n < 2^17: the exact product, rounded to 53
\* bits
DoubleTimes(x, n) ==
    IF x = Zero \/ n = 0 THEN Zero
    ELSE LET product == Carry([i \in 1..Len(x.sig) |-> n * x.sig[i]])
             drop    == BitLength(product[1]) + (Precision - 1) - Precision
         IN  [sig |-> RoundedSig(product, drop, FALSE, FALSE), exp |-> x.exp]

\* Math.round(x) for a double 0 <= x < 2^31 with exp <= -52: the integer
\* part of x, plus one when the fraction is one half or more
MathRound(x) ==
    IF x = Zero THEN 0
    ELSE LET point == 0 - x.exp - (Precision - 1)   \* fraction bits in the first digit
         IN  (x.sig[1] \div (2 ^ point)) +
             (IF point >= 1 THEN (x.sig[1] \div (2 ^ (point - 1))) % 2
              ELSE x.sig[2] \div (2 ^ (DigitBits - 1)))

\* the rounded percentages of every count up to MaxTotal, computed once
RoundTable ==
    [total \in 1..MaxTotal |->
        [correct \in 0..total |-> MathRound(DoubleTimes(DoubleDiv(correct, total), 100))]]

\* Math.round((correct / total) * 100)
RoundPct(correct, total) ==
    IF total <= MaxTotal THEN RoundTable[total][correct]
    ELSE MathRound(DoubleTimes(DoubleDiv(correct, total), 100))

\* a loop that keeps no category statistics for a question without a
\* stored category
ScoreStepSkipUncategorised(acc, answers, question) ==
    LET category == CategoryOf(question)
        correct  == IsCorrect(answers, question)
        old      == IF category \in DOMAIN acc.categoryBreakdown
                    THEN acc.categoryBreakdown[category]
                    ELSE [correct |-> 0, total |-> 0, percentage |-> 0]
        new      == [correct    |-> old.correct + (IF correct THEN 1 ELSE 0),
                     total      |-> old.total + 1,
                     percentage |-> 0]
    IN  [totalCorrect      |-> acc.totalCorrect + (IF correct THEN 1 ELSE 0),
         wrongQuestions    |-> IF correct THEN acc.wrongQuestions
                               ELSE Append(acc.wrongQuestions, WrongEntry(answers, question)),
         categoryBreakdown |-> IF Falsy(question.category) THEN acc.categoryBreakdown
                               ELSE [c \in DOMAIN acc.categoryBreakdown \cup {category} |->
                                   IF c = category THEN new ELSE acc.categoryBreakdown[c]]]

\* one iteration of the loop over the questions (lines 262-289)
ScoreStep(acc, answers, question) ==
    LET category == CategoryOf(question)
        correct  == IsCorrect(answers, question)
        old      == IF category \in DOMAIN acc.categoryBreakdown
                    THEN acc.categoryBreakdown[category]
                    ELSE [correct |-> 0, total |-> 0, percentage |-> 0]
        new      == [correct    |-> old.correct + (IF correct THEN 1 ELSE 0),
                     total      |-> old.total + 1,
                     percentage |-> 0]
    IN  [totalCorrect      |-> acc.totalCorrect + (IF correct THEN 1 ELSE 0),
         wrongQuestions    |-> IF correct THEN acc.wrongQuestions
                               ELSE Append(acc.wrongQuestions, WrongEntry(answers, question)),
         categoryBreakdown |-> [c \in DOMAIN acc.categoryBreakdown \cup {category} |->
                                   IF c = category THEN new ELSE acc.categoryBreakdown[c]]]

RECURSIVE ScoreLoop(_, _)
ScoreLoop(answers, questions) ==
    IF questions = <<>>
    THEN [totalCorrect |-> 0, wrongQuestions |-> <<>>, categoryBreakdown |-> <<>>]
    ELSE ScoreStep(ScoreLoop(answers, SubSeq(questions, 1, Len(questions) - 1)),
                   answers, questions[Len(questions)])

calculateDetailedScore(answers, questions) ==
    LET acc == ScoreLoop(answers, questions)
    IN  [totalCorrect      |-> acc.totalCorrect,
         totalQuestions    |-> Len(questions),
         categoryBreakdown |-> [c \in DOMAIN acc.categoryBreakdown |->
             LET data == acc.categoryBreakdown[c]
             IN  [data EXCEPT !.percentage =
                     IF data.total > 0 THEN RoundPct(data.correct, data.total) ELSE 0]],
         wrongQuestions    |-> acc.wrongQuestions]

(***************************************************************************)
(* The tests and questions held by the database, and findTestForStage      *)
(***************************************************************************)
\* the company tests present in the database
Tests == {[company |-> "TCS", topic |-> "Foundation"],
          [company |-> "TCS", topic |-> "Advanced"],
          [company |-> "TCS", topic |-> "Coding"],
          [company |-> "Wipro", topic |-> "Aptitude"],
          [company |-> "Wipro", topic |-> "Essay"]}

NoTest == [company |-> Null, topic |-> Null]

\* testMapping[stageName.toLowerCase()]; the company argument is not used
testMapping(stageName) ==
    IF stageName = "foundation" THEN [company |-> "TCS", topic |-> "Foundation"]
    ELSE IF stageName = "advanced" THEN [company |-> "TCS", topic |-> "Advanced"]
    ELSE IF stageName = "coding" THEN [company |-> "TCS", topic |-> "Coding"]
    ELSE IF stageName = "aptitude" THEN [company |-> "Wipro", topic |-> "Aptitude"]
    ELSE IF stageName = "essay" THEN [company |-> "Wipro", topic |-> "Essay"]
    ELSE NoTest

findTestForStage(company, stageName) ==
    LET mapping == testMapping(stageName)
    IN  IF mapping = NoTest THEN NoTest
        ELSE IF mapping \in Tests THEN mapping
        ELSE NoTest

\* the two options of every stored question: "A" is the correct one
Options == <<[text |-> "A", isCorrect |-> TRUE], [text |-> "B", isCorrect |-> FALSE]>>

\* prisma.question.findMany({ where: { testId } }): every test holds three
\* questions, the second one without a stored category
QuestionsOf(test) ==
    <<[id |-> 1, text |-> "q1", category |-> "Quantitative", options |-> Options],
      [id |-> 2, text |-> "q2", category |-> Null, options |-> Options],
      [id |-> 3, text |-> "q3", category |-> "Quantitative", options |-> Options]>>

\* the answer maps a client submits: the first k questions answered with
\* the correct text, the next one with a wrong text, the rest left out
AnswersUpTo(k) ==
    [id \in {i \in 1..3 : i <= k + 1} |-> IF id <= k THEN "A" ELSE "B"]

AnswerInputs == {AnswersUpTo(k) : k \in 0..3}

(***************************************************************************)
(* src/lib/gemini.ts: categorizeQuestionByContent.  A question text is a    *)
(* sequence of words, the maximal runs of letters, digits and '_' of the    *)
(* text, in order; a missing text and the empty text are both <<>>.         *)
(***************************************************************************)
\* String.prototype.toLowerCase on a word: the capitalised words of the
\* texts used here
ToLowerCase(word) ==
    IF word = "Find" THEN "find"
    ELSE IF word = "Code" THEN "code"
    ELSE IF word = "Read" THEN "read"
    ELSE word

\* the alternatives of the five keyword patterns (lines 381-401); each is
\* matched between word boundaries.  The alternative c\+\+ needs a word
\* character right after its second '+' and matches no word.
quantKeywords ==
    {"find", "calculate", "solve", "percentage", "profit", "loss", "ratio",
     "proportion", "average", "sum", "product", "equation", "number",
     "digit", "integer", "fraction", "decimal", "prime", "even", "odd",
     "square", "cube", "root", "angle", "triangle", "circle", "area",
     "volume", "length", "distance", "speed", "time", "rate", "multiply",
     "divide", "add", "subtract", "money", "cost", "price", "value",
     "amount", "count", "total"}

logicKeywords ==
    {"logic", "sequence", "pattern", "series", "analogy", "similar",
     "opposite", "code", "decode", "arrange", "order", "direction",
     "position", "relationship", "syllogism", "inference", "conclusion",
     "puzzle", "cryptic", "next", "follows", "statement", "true", "false"}

verbalKeywords ==
    {"grammar", "tense", "subject", "verb", "pronoun", "article",
     "preposition", "conjunction", "spelling", "vocabulary", "synonym",
     "antonym", "passage", "comprehension", "sentence", "paragraph",
     "meaning", "usage", "english", "word", "phrase", "language",
     "literature", "idiom", "fill", "blank", "error", "correct", "best",
     "complete"}

codingKeywords ==
    {"code", "program", "function", "variable", "algorithm", "array",
     "loop", "condition", "output", "input", "compile", "syntax", "error",
     "debug", "java", "python", "cpp", "javascript", "database", "query",
     "sql", "html", "css", "write", "print", "return", "class", "method",
     "object"}

dataKeywords ==
    {"table", "graph", "chart", "bar", "pie", "diagram", "data",
     "statistics", "percentage", "ratio", "comparison", "analysis",
     "interpretation", "figure", "row", "column", "value", "shown",
     "increase", "decrease", "maximum", "minimum"}

\* (text.match(keywords) || []).length
RECURSIVE Matches(_, _)
Matches(text, keywords) ==
    IF text = <<>> THEN 0
    ELSE Matches(Tail(text), keywords) + (IF ToLowerCase(Head(text)) \in keywords THEN 1 ELSE 0)

\* the scores object, in insertion order (lines 371-403)
Scores(text) ==
    <<[category |-> "Quantitative Aptitude", score |-> 2 * Matches(text, quantKeywords)],
      [category |-> "Logical Reasoning", score |-> 2 * Matches(text, logicKeywords)],
      [category |-> "Verbal & Reading", score |-> 2 * Matches(text, verbalKeywords)],
      [category |-> "Programming/Coding", score |-> 2 * Matches(text, codingKeywords)],
      [category |-> "Data Interpretation", score |-> 2 * Matches(text, dataKeywords)],
      [category |-> "General Reasoning", score |-> 0]>>

\* the loop of lines 405-414: the first entry with the highest score
RECURSIVE SelectCategory(_, _, _)
SelectCategory(scores, maxScore, selectedCategory) ==
    IF scores = <<>> THEN [maxScore |-> maxScore, selectedCategory |-> selectedCategory]
    ELSE IF Head(scores).score > maxScore
         THEN SelectCategory(Tail(scores), Head(scores).score, Head(scores).category)
         ELSE SelectCategory(Tail(scores), maxScore, selectedCategory)

\* text.length: the letters of the words and one separator between words
RECURSIVE TextLength(_)
TextLength(text) ==
    IF text = <<>> THEN 0
    ELSE Len(Head(text)) + (IF Len(text) > 1 THEN 1 ELSE 0) + TextLength(Tail(text))

\* text.includes("passage") || text.includes("read"): the words of the
\* texts used here that contain one of the two
IncludesPassageOrRead(text) ==
    \E i \in 1..Len(text) :
        ToLowerCase(text[i]) \in {"passage", "passages", "read", "reading", "thread"}

\* a selection that keeps the last of the entries with the highest score
categorizeQuestionByContentLastMax(questionText) ==
    IF questionText = <<>> THEN "General Knowledge"
    ELSE LET scores == Scores(questionText)
             last   == CHOOSE n \in 1..Len(scores) :
                          /\ \A m \in 1..Len(scores) : scores[m].score <= scores[n].score
                          /\ \A m \in (n + 1)..Len(scores) : scores[m].score < scores[n].score
         IN  IF scores[last].score = 0
             THEN IF TextLength(questionText) < 100 THEN "General Reasoning"
                  ELSE IF IncludesPassageOrRead(questionText) THEN "Verbal & Reading"
                  ELSE "General Knowledge"
             ELSE scores[last].category

\* a missing text that is scored like any other text
categorizeQuestionByContentNoShortCircuit(questionText) ==
    LET selected == SelectCategory(Scores(questionText), 0, "General Knowledge")
    IN  IF selected.maxScore = 0
        THEN IF TextLength(questionText) < 100 THEN "General Reasoning"
             ELSE IF IncludesPassageOrRead(questionText) THEN "Verbal & Reading"
             ELSE "General Knowledge"
        ELSE selected.selectedCategory

categorizeQuestionByContent(questionText) ==
    IF questionText = <<>> THEN "General Knowledge"
    ELSE LET selected == SelectCategory(Scores(questionText), 0, "General Knowledge")
         IN  IF selected.maxScore = 0
             THEN IF TextLength(questionText) < 100 THEN "General Reasoning"
                  ELSE IF IncludesPassageOrRead(questionText) THEN "Verbal & Reading"
                  ELSE "General Knowledge"
             ELSE selected.selectedCategory

(***************************************************************************)
(* src/lib/gemini.ts: generateMockCategoryWiseAnalysis.  The report is      *)
(* kept as the record of the values its template prints.                    *)
(***************************************************************************)
\* the categories of the wrong questions in first-seen order: the keys of
\* categoryStats
RECURSIVE SeenCategories(_)
SeenCategories(wrongQuestions) ==
    IF wrongQuestions = <<>> THEN <<>>
    ELSE LET before   == SeenCategories(Front(wrongQuestions))
             category == categorizeQuestionByContent(wrongQuestions[Len(wrongQuestions)].text)
         IN  IF \E i \in 1..Len(before) : before[i] = category THEN before
             ELSE Append(before, category)

\* categorizedWrongQuestions[category] (lines 448-461)
WrongQuestionsIn(wrongQuestions, category) ==
    SelectSeq(wrongQuestions, LAMBDA q : categorizeQuestionByContent(q.text) = category)

\* Math.ceil(testData.totalQuestions / Object.keys(categoryStats).length)
CeilDiv(n, d) == (n + d - 1) \div d

\* the percentages are integers from 0 to 100; NaN is written as the
\* integer below them
NaN == 0 - 1

\* the statistics of one category (lines 464-481); 0 / 0 is NaN
CategoryStats(testData, category) ==
    LET total   == CeilDiv(testData.totalQuestions, Len(SeenCategories(testData.wrongQuestions)))
        wrong   == Len(WrongQuestionsIn(testData.wrongQuestions, category))
        correct == IF total - wrong > 0 THEN total - wrong ELSE 0
    IN  [category   |-> category,
         total      |-> total,
         wrong      |-> wrong,
         correct    |-> correct,
         percentage |-> IF total = 0 THEN NaN ELSE RoundPct(correct, total)]

\* a comparator that orders the better category first
AboveDescending(a, b) == a.percentage # NaN /\ b.percentage # NaN /\ a.percentage < b.percentage

\* a[1].percentage - b[1].percentage > 0; a NaN difference orders nothing
Above(a, b) == a.percentage # NaN /\ b.percentage # NaN /\ a.percentage > b.percentage

\* Array.prototype.sort with that comparator: stable, ascending
RECURSIVE SortByPercentage(_)
SortByPercentage(entries) ==
    IF entries = <<>> THEN <<>>
    ELSE LET sorted == SortByPercentage(Front(entries))
             last   == entries[Len(entries)]
             keep   == Cardinality({i \in 1..Len(sorted) : ~Above(sorted[i], last)})
         IN  SubSeq(sorted, 1, keep) \o <<last>> \o SubSeq(sorted, keep + 1, Len(sorted))

\* the question preview: the text, cut after 100 characters
Preview(text) == [text |-> text, cut |-> TextLength(text) > 100]

WrongDetails(wrongQuestions) ==
    [i \in 1..Len(wrongQuestions) |->
        [question      |-> Preview(wrongQuestions[i].text),
         userAnswer    |-> wrongQuestions[i].userAnswer,
         correctAnswer |-> wrongQuestions[i].correctAnswer]]

\* the summary sentence of a category (lines 581-589)
SummaryBand(percentage) ==
    IF percentage # NaN /\ percentage >= 80 THEN "Excellent performance!"
    ELSE IF percentage # NaN /\ percentage >= 60 THEN "Good effort, but needs improvement."
    ELSE IF percentage # NaN /\ percentage >= 40 THEN "Requires focused practice."
    ELSE "Critical area needing immediate attention."

generateMockCategoryWiseAnalysis(testData, testTitle) ==
    LET seen == SeenCategories(testData.wrongQuestions)
        sortedCategories ==
            SortByPercentage([i \in 1..Len(seen) |-> CategoryStats(testData, seen[i])])
    IN  IF sortedCategories = <<>>
        THEN IF Len(testData.wrongQuestions) > 0
             THEN [report |-> "basic", testTitle |-> testTitle, score |-> testData.score,
                   correct |-> testData.correct, totalQuestions |-> testData.totalQuestions,
                   wrong |-> testData.wrong,
                   wrongQuestions |-> WrongDetails(testData.wrongQuestions)]
             ELSE [report |-> "Unable to categorize questions", testTitle |-> testTitle,
                   score |-> testData.score, correct |-> testData.correct,
                   totalQuestions |-> testData.totalQuestions]
        ELSE [report |-> "categories", testTitle |-> testTitle,
              categories |->
                  [i \in 1..Len(sortedCategories) |->
                      [stats          |-> sortedCategories[i],
                       summary        |-> SummaryBand(sortedCategories[i].percentage),
                       wrongQuestions |->
                           WrongDetails(WrongQuestionsIn(testData.wrongQuestions,
                                                         sortedCategories[i].category))]],
              weakestCategory   |-> sortedCategories[1],
              strongestCategory |-> sortedCategories[Len(sortedCategories)]]

(***************************************************************************)
(* src/lib/gemini.ts: generateDetailedFieldAnalysis.  A response text of    *)
(* the AI collaborator is a sequence of words and white-space runs.         *)
(***************************************************************************)
WhiteSpace == {" ", "\n"}

\* String.prototype.trim
RECURSIVE Trim(_)
Trim(text) ==
    IF text = <<>> THEN text
    ELSE IF Head(text) \in WhiteSpace THEN Trim(Tail(text))
    ELSE IF text[Len(text)] \in WhiteSpace THEN Trim(Front(text))
    ELSE text

\* lines 271-274: no API key, the fallback at once;
\* lines 276-354: the prompt is built and model.generateContent is called
StartFieldAnalysis(keyPresent, testData, testTitle) ==
    IF keyPresent
    THEN [op |-> "generateDetailedFieldAnalysis", pc |-> "generateContent",
          keyPresent |-> TRUE, testData |-> testData, testTitle |-> testTitle,
          aiCalls |-> 1, outcome |-> "pending", responseText |-> <<>>, result |-> Null]
    ELSE [op |-> "generateDetailedFieldAnalysis", pc |-> "returned",
          keyPresent |-> FALSE, testData |-> testData, testTitle |-> testTitle,
          aiCalls |-> 0, outcome |-> "key absent", responseText |-> <<>>,
          result |-> generateMockCategoryWiseAnalysis(testData, testTitle)]

\* a catch block that calls the AI once more before it gives up
CatchFieldAnalysisRetry(f) ==
    IF f.aiCalls < 2
    THEN [f EXCEPT !.aiCalls = @ + 1]
    ELSE [f EXCEPT !.pc = "returned", !.outcome = "threw",
                   !.result = generateMockCategoryWiseAnalysis(f.testData, f.testTitle)]

\* lines 358-361: the catch block
CatchFieldAnalysis(f) ==
    [f EXCEPT !.pc = "returned", !.outcome = "threw",
              !.result = generateMockCategoryWiseAnalysis(f.testData, f.testTitle)]

\* lines 355-357: the response text, trimmed
ReturnFieldAnalysis(f, responseText) ==
    [f EXCEPT !.pc = "returned", !.outcome = "text", !.responseText = responseText,
              !.result = Trim(responseText)]

(***************************************************************************)
(* src/lib/gemini.ts: getMockComprehensiveSummary.  stats.topics is the     *)
(* sequence of its entries [topic, correct, total] in insertion order; a    *)
(* text of the summary is the record of the values its template prints,     *)
(* tagged with its source.                                                  *)
(***************************************************************************)
FieldNames == {"performanceOverview", "strengthsAnalysis", "weaknessAnalysis",
               "topicBreakdown", "studyRecommendations", "actionPlan",
               "motivationalMessage"}

\* lines 157-162
TopicPerformances(stats) ==
    [i \in 1..Len(stats.topics) |->
        [topic      |-> stats.topics[i].topic,
         correct    |-> stats.topics[i].correct,
         total      |-> stats.topics[i].total,
         percentage |-> IF stats.topics[i].total > 0
                        THEN RoundPct(stats.topics[i].correct, stats.topics[i].total)
                        ELSE 0]]

\* lines 165-167
MockStrengths(stats) == SelectSeq(TopicPerformances(stats), LAMBDA t : t.percentage >= 70)

MockWeaknesses(stats) == SelectSeq(TopicPerformances(stats), LAMBDA t : t.percentage < 60)

MockModerate(stats) ==
    SelectSeq(TopicPerformances(stats), LAMBDA t : t.percentage >= 60 /\ t.percentage < 70)

TopicNames(performances) == [i \in 1..Len(performances) |-> performances[i].topic]

\* the sentence of a topic in topicBreakdown (lines 203-211)
TopicBand(percentage) ==
    IF percentage >= 80 THEN "Excellent performance"
    ELSE IF percentage >= 70 THEN "Strong performance"
    ELSE IF percentage >= 60 THEN "Moderate performance"
    ELSE IF percentage >= 40 THEN "Weak area"
    ELSE "Critical weakness"

\* weaknesses[i]?.topic || fallback
TopicOr(performances, i, fallback) ==
    IF i <= Len(performances) /\ performances[i].topic # "" THEN performances[i].topic
    ELSE fallback

getMockComprehensiveSummary(stats, testTitle) ==
    LET scorePercentage == stats.score
        all        == TopicPerformances(stats)
        strengths  == MockStrengths(stats)
        weaknesses == MockWeaknesses(stats)
        moderate   == MockModerate(stats)
    IN  [performanceOverview |->
             [source   |-> "mock", score |-> scorePercentage, testTitle |-> testTitle,
              answered |-> MathRound(DoubleTimes(DoubleDiv(scorePercentage, 100),
                                                 stats.totalQuestions)),
              totalQuestions |-> stats.totalQuestions,
              band     |-> IF scorePercentage >= 80 THEN "excellent"
                           ELSE IF scorePercentage >= 60 THEN "good foundation"
                           ELSE "focused practice needed"],
         strengthsAnalysis |->
             IF Len(strengths) > 0
             THEN [source |-> "mock", kind |-> "strengths", topics |-> strengths,
                   allTopics |-> Len(strengths) = Len(all)]
             ELSE IF Len(moderate) > 0
             THEN [source |-> "mock", kind |-> "moderate", topics |-> TopicNames(moderate)]
             ELSE [source |-> "mock", kind |-> "consistent"],
         weaknessAnalysis |->
             IF Len(weaknesses) > 0
             THEN [source |-> "mock", kind |-> "weaknesses", topics |-> weaknesses,
                   allTopics |-> Len(weaknesses) = Len(all)]
             ELSE IF scorePercentage < 70
             THEN [source |-> "mock", kind |-> "no critical weakness"]
             ELSE [source |-> "mock", kind |-> "solid foundation"],
         topicBreakdown |->
             [source |-> "mock",
              topics |-> [i \in 1..Len(all) |->
                             [topic |-> all[i].topic, band |-> TopicBand(all[i].percentage),
                              correct |-> all[i].correct, total |-> all[i].total,
                              percentage |-> all[i].percentage]]],
         studyRecommendations |->
             [source |-> "mock",
              items  |-> <<IF Len(weaknesses) > 0 THEN <<"Focus on", weaknesses[1].topic>>
                           ELSE <<"Review all topics", "">>,
                           IF Len(weaknesses) > 1 THEN <<"Work on", weaknesses[2].topic>>
                           ELSE <<"Practice previous year papers", "">>,
                           <<"Take timed mock tests", "">>,
                           <<"Join online study groups", "">>,
                           IF Len(strengths) > 0 THEN <<"Maintain your strength in", strengths[1].topic>>
                           ELSE <<"Create a study schedule", "">> >>],
         actionPlan |->
             [source |-> "mock",
              day12  |-> IF Len(weaknesses) > 0
                         THEN <<"Deep dive into", TopicOr(weaknesses, 1, "weak areas"), "">>
                         ELSE <<"Review all topic fundamentals", "", "">>,
              day34  |-> IF Len(weaknesses) > 1
                         THEN <<"Focus on", TopicOr(weaknesses, 2, "second weak area"),
                                TopicOr(weaknesses, 1, "first weak area")>>
                         ELSE IF Len(moderate) > 0
                         THEN <<"Practice", TopicOr(moderate, 1, "moderate areas"), "">>
                         ELSE <<"Solve mixed difficulty questions", "", "">>],
         motivationalMessage |->
             [source |-> "mock",
              band   |-> IF scorePercentage >= 80 THEN "Outstanding work!"
                         ELSE IF scorePercentage >= 70 THEN "Great effort!"
                         ELSE IF scorePercentage >= 60 THEN "Good foundation!"
                         ELSE "Don't be discouraged!",
              topics |-> IF scorePercentage >= 70 /\ scorePercentage < 80
                         THEN TopicNames(weaknesses) ELSE <<>>]]

(***************************************************************************)
(* src/lib/gemini.ts: generateComprehensiveSummary.  A response text is a   *)
(* sequence of tokens [kind, name, value]: an opening brace, a closing      *)
(* brace, a member of a JSON object (name and value), a JSON literal, or a  *)
(* word of prose or a code fence.  A value is "" when it is falsy.          *)
(***************************************************************************)
Open == [kind |-> "{", name |-> "", value |-> ""]

Close == [kind |-> "}", name |-> "", value |-> ""]

Member(name, value) == [kind |-> "member", name |-> name, value |-> value]

Literal(value) == [kind |-> "literal", name |-> "", value |-> value]

Prose(word) == [kind |-> "prose", name |-> "", value |-> word]

\* responseText.match(/\{[\s\S]*\}/): from the first opening brace to the
\* last closing brace; <<>> when there is no match
JsonMatch(responseText) ==
    LET opens  == {i \in 1..Len(responseText) : responseText[i] = Open}
        closes == {i \in 1..Len(responseText) : responseText[i] = Close}
    IN  IF opens = {} \/ closes = {} THEN <<>>
        ELSE LET first == CHOOSE i \in opens : \A j \in opens : i <= j
                 last  == CHOOSE i \in closes : \A j \in closes : j <= i
             IN  IF first < last THEN SubSeq(responseText, first, last) ELSE <<>>

Undefined == [source |-> "undefined", text |-> ""]

\* JSON.parse: an object is an opening brace, members, a closing brace, and
\* a repeated name keeps its last value; a literal alone is a value with no
\* members; anything else is a SyntaxError
JsonParse(tokens) ==
    IF /\ Len(tokens) >= 2
       /\ tokens[1] = Open
       /\ tokens[Len(tokens)] = Close
       /\ \A i \in 2..(Len(tokens) - 1) : tokens[i].kind = "member"
    THEN [ok |-> TRUE, kind |-> "object",
          members |-> [name \in {tokens[i].name : i \in 2..(Len(tokens) - 1)} |->
                          LET last == CHOOSE i \in 2..(Len(tokens) - 1) :
                                          /\ tokens[i].name = name
                                          /\ \A j \in (i + 1)..(Len(tokens) - 1) :
                                                tokens[j].name # name
                          IN  [source |-> "ai", text |-> tokens[last].value]]]
    ELSE IF Len(tokens) = 1 /\ tokens[1].kind = "literal"
    THEN [ok |-> TRUE, kind |-> tokens[1].value, members |-> <<>>]
    ELSE [ok |-> FALSE, kind |-> "SyntaxError", members |-> <<>>]

\* the fixed defaults of lines 138-144
Default(name) ==
    [source |-> "default",
     text   |-> IF name = "performanceOverview" THEN "Test completed successfully."
                ELSE IF name = "strengthsAnalysis" THEN "Good effort on the test."
                ELSE IF name = "weaknessAnalysis" THEN "Areas for improvement exist."
                ELSE IF name = "topicBreakdown" THEN "{}"
                ELSE IF name = "studyRecommendations"
                     THEN "[Continue practicing, Review fundamentals]"
                ELSE IF name = "actionPlan" THEN "Study regularly and practice more questions."
                ELSE "Keep up the hard work!"]

\* a member access with no default
MemberOrUndefined(parsedSummary, name) ==
    IF name \in DOMAIN parsedSummary.members
    THEN parsedSummary.members[name]
    ELSE Undefined

\* parsedSummary.name || default
MemberOr(parsedSummary, name) ==
    IF name \in DOMAIN parsedSummary.members /\ parsedSummary.members[name].text # ""
    THEN parsedSummary.members[name]
    ELSE Default(name)

\* Math.floor(x) for a double 0 <= x < 2^31 with exp <= -52; for an integer
\* k, x >= k exactly when the integer part of x is at least k
IntegerPart(x) ==
    IF x = Zero THEN 0
    ELSE x.sig[1] \div (2 ^ (0 - x.exp - (Precision - 1)))

\* data.total > 0 ? (data.correct / data.total) * 100 : 0 (lines 78 and 85),
\* not rounded
PromptPercentage(data) ==
    IF data.total > 0 THEN DoubleTimes(DoubleDiv(data.correct, data.total), 100) ELSE Zero

\* lines 76-81
PromptStrengths(stats) ==
    TopicNames(SelectSeq(stats.topics, LAMBDA data : IntegerPart(PromptPercentage(data)) >= 70))

\* lines 83-88
PromptWeaknesses(stats) ==
    TopicNames(SelectSeq(stats.topics, LAMBDA data : IntegerPart(PromptPercentage(data)) < 60))

\* the values the prompt of lines 91-117 prints
SummaryPrompt(stats, testTitle) ==
    [built |-> TRUE, testTitle |-> testTitle, score |-> stats.score,
     totalQuestions |-> stats.totalQuestions,
     topics |-> TopicPerformances(stats),
     strengths |-> PromptStrengths(stats),
     weaknesses |-> PromptWeaknesses(stats)]

NoPrompt ==
    [built |-> FALSE, testTitle |-> "", score |-> 0, totalQuestions |-> 0,
     topics |-> <<>>, strengths |-> <<>>, weaknesses |-> <<>>]

\* lines 57-60: no API key, the mock summary at once;
\* lines 62-119: the prompt is built and model.generateContent is called
StartSummary(keyPresent, stats, testTitle) ==
    IF keyPresent
    THEN [op |-> "generateComprehensiveSummary", pc |-> "generateContent",
          keyPresent |-> TRUE, stats |-> stats, testTitle |-> testTitle,
          prompt |-> SummaryPrompt(stats, testTitle),
          aiCalls |-> 1, outcome |-> "pending", responseText |-> <<>>,
          result |-> [name \in {} |-> Undefined]]
    ELSE [op |-> "generateComprehensiveSummary", pc |-> "returned",
          keyPresent |-> FALSE, stats |-> stats, testTitle |-> testTitle,
          prompt |-> NoPrompt,
          aiCalls |-> 0, outcome |-> "key absent", responseText |-> <<>>,
          result |-> getMockComprehensiveSummary(stats, testTitle)]

\* lines 146-149: the outer catch block
CatchSummary(f, outcome) ==
    [f EXCEPT !.pc = "returned", !.outcome = outcome,
              !.result = getMockComprehensiveSummary(f.stats, f.testTitle)]

\* lines 120-145: the response text is parsed; a text that does not parse
\* gives the mock summary (lines 132-135), a parsed null makes the member
\* access throw into the outer catch block
ReturnSummary(f, responseText) ==
    LET jsonMatch     == JsonMatch(responseText)
        parsedSummary == IF jsonMatch # <<>> THEN JsonParse(jsonMatch)
                         ELSE JsonParse(responseText)
        g             == [f EXCEPT !.responseText = responseText]
    IN  IF ~parsedSummary.ok THEN CatchSummary(g, "not JSON")
        ELSE IF parsedSummary.kind = "null" THEN CatchSummary(g, "threw")
        ELSE [g EXCEPT !.pc = "returned", !.outcome = "JSON",
                       !.result = [name \in FieldNames |-> MemberOr(parsedSummary, name)]]

(***************************************************************************)
(* State                                                                   *)
(***************************************************************************)
VARIABLES
    company,           \* application.company
    application,       \* the PlacementApplication record: status, currentStage,
                       \* finalTrack, finalDecision
    assessmentStages,  \* the AssessmentStage rows of the application, in storage order
    now,               \* the clock read by new Date()
    req,               \* per request: the handler's position and local variables
    fn                 \* SpecFn: the last pure-function call and its result

vars == <<company, application, assessmentStages, now, req, fn>>

Req == 1..MaxReq

\* who sends the request: no session, the applicant, another user, an administrator
Sessions == {"none", "owner", "other", "admin"}

\* the [id] route parameter: the application's id or one no application has
Ids == {"app", "missing"}

NoResponse == [status |-> 0, error |-> Null]

ErrorResponse(status, error) == [status |-> status, error |-> error]

NoScore == [totalCorrect |-> 0, totalQuestions |-> 0,
            categoryBreakdown |-> <<>>, wrongQuestions |-> <<>>]

\* the score and total fields of the request body (line 18); NoBody when
\* the client sends neither
NoBody == [score |-> 0, total |-> 0]

BodyInputs == {NoBody, [score |-> MaxQuestions, total |-> MaxQuestions]}

\* a request that has not arrived; wroteStage and wroteTrack record whether
\* the request has executed its assessmentStage.upsert and its finalTrack update
\* essayText: essayText && stageName === 'essay' (line 103)
IdleReq == [pc |-> "idle", stageName |-> Null, essayText |-> FALSE,
            answers |-> <<>>, body |-> NoBody,
            stages |-> <<>>, existingId |-> 0, scoreData |-> NoScore,
            percentage |-> NullPct, isPassed |-> FALSE, nextStage |-> Null,
            response |-> NoResponse, wroteStage |-> FALSE, wroteTrack |-> FALSE]

\* a request that has answered: its locals are gone
Answered(r, response) ==
    [IdleReq EXCEPT !.pc = "done", !.stageName = req[r].stageName,
                    !.isPassed = req[r].isPassed, !.response = response,
                    !.wroteStage = req[r].wroteStage, !.wroteTrack = req[r].wroteTrack]

\* a request that has answered with the generic failure
Failed(r, response) ==
    [IdleReq EXCEPT !.pc = "done", !.response = response,
                    !.wroteStage = req[r].wroteStage, !.wroteTrack = req[r].wroteTrack]

FnIdle == [op |-> "none"]

\* the application as created: at the first stage of its company's pipeline
FirstStage(c) ==
    IF c = "TCS" THEN TCSStages[1] ELSE IF c = "Wipro" THEN WiproStages[1] ELSE "applied"

InitApplication(c) ==
    /\ company = c
    /\ application = [status |-> FirstStage(c), currentStage |-> FirstStage(c),
                      finalTrack |-> Null, finalDecision |-> Null]
    /\ assessmentStages = <<>>
    /\ now = 0
    /\ req = [r \in Req |-> IdleReq]

Init ==
    /\ \E c \in Companies : InitApplication(c)
    /\ fn = FnIdle

(***************************************************************************)
(* POST: lines 11-67, up to the first write.  The application is read once  *)
(* (findUnique, with its assessmentStages); the tests and questions read    *)
(* afterwards never change, so the step is taken as one.                    *)
(***************************************************************************)
\* existingStage && existingStage.submittedAt
AlreadyCompletedNever(stages, stageName) == FALSE

AlreadyCompleted(stages, stageName) ==
    /\ Found(stages, stageName)
    /\ stages[FirstIndex(stages, stageName)].submittedAt # 0

\* existingStage?.id, 0 when there is no existing stage
ExistingId(stages, stageName) ==
    IF Found(stages, stageName) THEN stages[FirstIndex(stages, stageName)].id ELSE 0

\* actualTotal > 0 ? (actualScore / actualTotal) * 100 : 0
PercentageOf(scoreData) ==
    IF scoreData.totalQuestions > 0
    THEN Pct(scoreData.totalCorrect * 100, scoreData.totalQuestions)
    ELSE Pct(0, 1)

Reject(r, stageName, response) ==
    /\ req' = [req EXCEPT ![r] = [IdleReq EXCEPT !.pc = "done", !.stageName = stageName,
                                                  !.response = response]]
    /\ UNCHANGED <<company, application, assessmentStages, now, fn>>

\* lines 51-67 for an accepted submission: the score, the percentage and
\* the pass status, kept in the request's locals
Accept(r, stageName, answers, essayText, body) ==
    LET test       == findTestForStage(company, stageName)
        questions  == IF test # NoTest THEN QuestionsOf(test) ELSE <<>>
        scoreData  == calculateDetailedScore(answers, questions)
        percentage == PercentageOf(scoreData)
        isPassed   == calculatePassStatus(company, stageName, percentage,
                                          scoreData.totalCorrect)
    IN  /\ req' = [req EXCEPT ![r] =
               [IdleReq EXCEPT !.pc = "upsert", !.stageName = stageName,
                               !.essayText = essayText /\ stageName = "essay",
                               !.answers = answers, !.body = body,
                               !.stages = assessmentStages,
                               !.existingId = ExistingId(assessmentStages, stageName),
                               !.scoreData = scoreData,
                               !.percentage = percentage,
                               !.isPassed = isPassed]]
        /\ UNCHANGED <<company, application, assessmentStages, now, fn>>

\* requests are numbered in their order of arrival
Receive(r) ==
    /\ req[r].pc = "idle"
    /\ \A q \in Req : q < r => req[q].pc # "idle"
    /\ \E session \in Sessions :
        IF session = "none"
        THEN Reject(r, Null, ErrorResponse(401, "Unauthorized"))
        ELSE \E id \in Ids :
            IF id # "app"
            THEN Reject(r, Null, ErrorResponse(404, "Application not found"))
            ELSE IF session = "other"
            THEN Reject(r, Null, ErrorResponse(403, "Forbidden"))
            ELSE \E stageName \in StageNames :
                IF AlreadyCompleted(assessmentStages, stageName)
                THEN Reject(r, stageName, ErrorResponse(400, "Stage already completed"))
                ELSE \E answers \in AnswerInputs, essayText \in BOOLEAN,
                        body \in BodyInputs :
                        Accept(r, stageName, answers, essayText, body)

(***************************************************************************)
(* prisma.assessmentStage.upsert (lines 69-100): updates the row whose id   *)
(* is existingStage.id, creates a row when there is none                    *)
(***************************************************************************)
\* a row that stores the score the client sent
StageDataClientScore(r) ==
    [score      |-> IF req[r].body # NoBody THEN req[r].body.score
                    ELSE req[r].scoreData.totalCorrect,
     total      |-> req[r].scoreData.totalQuestions,
     percentage |-> req[r].percentage,
     isPassed   |-> req[r].isPassed,
     feedback   |-> [categoryBreakdown |-> req[r].scoreData.categoryBreakdown,
                     wrongQuestions    |-> req[r].scoreData.wrongQuestions]]

StageData(r) ==
    [score      |-> req[r].scoreData.totalCorrect,
     total      |-> req[r].scoreData.totalQuestions,
     percentage |-> req[r].percentage,
     isPassed   |-> req[r].isPassed,
     feedback   |-> [categoryBreakdown |-> req[r].scoreData.categoryBreakdown,
                     wrongQuestions    |-> req[r].scoreData.wrongQuestions]]

Upsert(r) ==
    /\ req[r].pc = "upsert"
    /\ now' = now + 1
    /\ LET data == StageData(r)
           row  == [id |-> Len(assessmentStages) + 1, stageName |-> req[r].stageName,
                    score |-> data.score, total |-> data.total,
                    percentage |-> data.percentage, isPassed |-> data.isPassed,
                    submittedAt |-> now', feedback |-> data.feedback]
       IN  assessmentStages' =
               IF \E i \in 1..Len(assessmentStages) : assessmentStages[i].id = req[r].existingId
               THEN [i \in 1..Len(assessmentStages) |->
                        IF assessmentStages[i].id = req[r].existingId
                        THEN [row EXCEPT !.id = req[r].existingId]
                        ELSE assessmentStages[i]]
               ELSE Append(assessmentStages, row)
    /\ req' = [req EXCEPT ![r].wroteStage = TRUE,
                          ![r].pc = IF req[r].essayText THEN "essay" ELSE "update"]
    /\ UNCHANGED <<company, application, fn>>

\* lines 102-112: an update of the stage row that sets no field
StoreEssay(r) ==
    /\ req[r].pc = "essay"
    /\ req' = [req EXCEPT ![r].pc = "update"]
    /\ UNCHANGED <<company, application, assessmentStages, now, fn>>

(***************************************************************************)
(* lines 114-125: the application's status and current stage                *)
(***************************************************************************)
\* isPassed && isLastStage(application.company, nextStage)
AllStagesCompletedIgnoringPass(c, isPassed, nextStage) == isLastStage(c, nextStage)

AllStagesCompleted(c, isPassed, nextStage) == isPassed /\ isLastStage(c, nextStage)

\* a response that names the next stage whether or not the stage passed
SuccessResponseAlwaysNext(r, nextStage) ==
    [status |-> 200, error |-> Null, success |-> TRUE, isPassed |-> req[r].isPassed,
     nextStage |-> nextStage,
     percentage |-> req[r].percentage,
     score |-> req[r].scoreData.totalCorrect,
     total |-> req[r].scoreData.totalQuestions,
     categoryBreakdown |-> req[r].scoreData.categoryBreakdown]

SuccessResponse(r, nextStage) ==
    [status |-> 200, error |-> Null, success |-> TRUE, isPassed |-> req[r].isPassed,
     nextStage |-> IF req[r].isPassed THEN nextStage ELSE Null,
     percentage |-> req[r].percentage,
     score |-> req[r].scoreData.totalCorrect,
     total |-> req[r].scoreData.totalQuestions,
     categoryBreakdown |-> req[r].scoreData.categoryBreakdown]

UpdateApplication(r) ==
    /\ req[r].pc = "update"
    /\ LET isPassed  == req[r].isPassed
           nextStage == determineNextStage(company, req[r].stageName, isPassed)
           newStatus == IF isPassed THEN nextStage ELSE "rejected"
       IN  /\ application' =
                 [application EXCEPT
                     !.status = newStatus,
                     !.currentStage = IF isPassed THEN nextStage ELSE req[r].stageName,
                     !.finalDecision = IF isPassed THEN @ ELSE "rejected"]
           /\ req' = [req EXCEPT ![r] =
                  IF AllStagesCompleted(company, isPassed, nextStage)
                  THEN [req[r] EXCEPT !.pc = "track", !.nextStage = nextStage]
                  ELSE Answered(r, SuccessResponse(r, nextStage))]
    /\ UNCHANGED <<company, assessmentStages, now, fn>>

(***************************************************************************)
(* lines 127-146: the track, computed from the stages read at line 22       *)
(***************************************************************************)
TrackResponse(r, track) ==
    [status |-> 200, error |-> Null, success |-> TRUE, isPassed |-> req[r].isPassed,
     nextStage |-> "completed", track |-> track]

AssignTrack(r) ==
    /\ req[r].pc = "track"
    /\ LET track == assignTrack(company, req[r].stages)
       IN  /\ application' = [application EXCEPT !.finalTrack = track,
                                                 !.finalDecision = "selected",
                                                 !.status = "completed"]
           /\ req' = [req EXCEPT ![r] =
                  [Answered(r, TrackResponse(r, track)) EXCEPT !.wroteTrack = TRUE]]
    /\ UNCHANGED <<company, assessmentStages, now, fn>>

(***************************************************************************)
(* lines 157-163: an awaited call throws; the handler answers 500           *)
(***************************************************************************)
Throw(r) ==
    /\ req[r].pc \in {"idle", "upsert", "essay", "update", "track"}
    /\ \A q \in Req : q < r => req[q].pc # "idle"
    /\ req' = [req EXCEPT ![r] =
           Failed(r, ErrorResponse(500, "Failed to submit stage assessment"))]
    /\ UNCHANGED <<company, application, assessmentStages, now, fn>>

Next ==
    \E r \in Req :
        \/ Receive(r)
        \/ Upsert(r)
        \/ StoreEssay(r)
        \/ UpdateApplication(r)
        \/ AssignTrack(r)
        \/ Throw(r)

Spec == Init /\ [][Next]_vars

(***************************************************************************)
(* SpecFn: the pure functions applied to inputs drawn from bounded sets;    *)
(* a behaviour is one call, or one passing chain                            *)
(***************************************************************************)
\* percentages 0..100 and the thirds a three-question test produces
PctInputs == {Pct(n, 1) : n \in 0..100} \cup {Pct(100 * k, 3) : k \in 0..3}

\* raw scores, and the 13 of a 13/20 foundation test
ScoreInputs == (0..MaxScore) \cup {13}

\* the stage results handed to assignTrack: one result per stage name
TrackStageNames == {"coding", "aptitude", "essay"}

TrackPcts == {NullPct, Pct(200, 3)} \cup
             {Pct(n, 1) : n \in {0, 67, 70, 79, 80, 81, 82, 83, 85, 100}}

StageResultInputs ==
    UNION {{st \in [1..n -> [stageName : TrackStageNames, percentage : TrackPcts]] :
               \A i, j \in 1..n : i # j => st[i].stageName # st[j].stageName} :
           n \in 0..MaxStages}

InitFn ==
    /\ InitApplication("TCS")
    /\ fn = FnIdle

CallCalculatePassStatus ==
    /\ fn = FnIdle
    /\ \E c \in Companies, s \in StageNames, p \in PctInputs, sc \in ScoreInputs :
          fn' = [op |-> "calculatePassStatus", company |-> c, stageName |-> s,
                 percentage |-> p, score |-> sc,
                 result |-> calculatePassStatus(c, s, p, sc)]
    /\ UNCHANGED <<company, application, assessmentStages, now, req>>

CallDetermineNextStage ==
    /\ fn = FnIdle
    /\ \E c \in Companies, s \in StageNames, passed \in BOOLEAN :
          fn' = [op |-> "determineNextStage", company |-> c, currentStage |-> s,
                 isPassed |-> passed, result |-> determineNextStage(c, s, passed)]
    /\ UNCHANGED <<company, application, assessmentStages, now, req>>

CallIsLastStage ==
    /\ fn = FnIdle
    /\ \E c \in Companies, s \in StageNames :
          fn' = [op |-> "isLastStage", company |-> c, stage |-> s,
                 result |-> isLastStage(c, s)]
    /\ UNCHANGED <<company, application, assessmentStages, now, req>>

CallAssignTrack ==
    /\ fn = FnIdle
    /\ \E c \in Companies, st \in StageResultInputs :
          fn' = [op |-> "assignTrack", company |-> c, stages |-> st,
                 result |-> assignTrack(c, st)]
    /\ UNCHANGED <<company, application, assessmentStages, now, req>>

\* the questions handed to calculateDetailedScore: the id of a question is
\* its position; it has a stored category or none, and a flagged option or
\* none
NoCorrectOptions == <<[text |-> "A", isCorrect |-> FALSE], [text |-> "B", isCorrect |-> FALSE]>>

QuestionCategories == {"Quantitative", "Logical", Null}

QuestionInputs ==
    UNION {{qs \in [1..n -> [id : 1..n, text : {"q"}, category : QuestionCategories,
                             options : {Options, NoCorrectOptions}]] :
               \A i \in 1..n : qs[i].id = i} :
           n \in 0..MaxQuestions}

\* the answer maps for n questions: each question is answered with the
\* text "A", with the text "B", or left out
AnswerMaps(n) ==
    UNION {[ids -> {"A", "B"}] : ids \in SUBSET (1..n)}

CallCalculateDetailedScore ==
    /\ fn = FnIdle
    /\ \E qs \in QuestionInputs :
          \E a \in AnswerMaps(Len(qs)) :
             fn' = [op |-> "calculateDetailedScore", answers |-> a, questions |-> qs,
                    result |-> calculateDetailedScore(a, qs),
                    percentage |-> PercentageOf(calculateDetailedScore(a, qs))]
    /\ UNCHANGED <<company, application, assessmentStages, now, req>>

\* a test of n questions of one category, the first k of them answered
\* with the correct text
OneCategoryQuestions(n) ==
    [i \in 1..n |-> [id |-> i, text |-> "q", category |-> "Quantitative", options |-> Options]]

CallCalculateDetailedScoreOneCategory ==
    /\ fn = FnIdle
    /\ \E n \in 0..MaxTotal :
          \E k \in 0..n :
             LET qs == OneCategoryQuestions(n)
                 a  == [i \in 1..k |-> "A"]
             IN  fn' = [op |-> "calculateDetailedScore", answers |-> a, questions |-> qs,
                        result |-> calculateDetailedScore(a, qs),
                        percentage |-> PercentageOf(calculateDetailedScore(a, qs))]
    /\ UNCHANGED <<company, application, assessmentStages, now, req>>

\* the wrong questions handed to the report builders: a quantitative text,
\* a logical one, one without any keyword, and an empty one
WrongTexts == {<<"Find", "the", "profit">>, <<"decode", "the", "pattern">>,
               <<"what", "is", "this">>, <<>>}

WrongQuestionInputs ==
    UNION {{wq \in [1..n -> [id : 1..n, text : WrongTexts, category : {"General"},
                             userAnswer : {"B"}, correctAnswer : {"A"}]] :
               \A i \in 1..n : wq[i].id = i} :
           n \in 0..MaxWrong}

\* the test data of a test with the given wrong questions and a number of
\* correct answers
TestData(wrongQuestions, correct) ==
    LET total == Len(wrongQuestions) + correct
    IN  [score             |-> IF total > 0 THEN RoundPct(correct, total) ELSE 0,
         totalQuestions    |-> total,
         correct           |-> correct,
         wrong             |-> Len(wrongQuestions),
         categoryBreakdown |-> <<>>,
         wrongQuestions    |-> wrongQuestions]

TestDataInputs == {TestData(wq, k) : wq \in WrongQuestionInputs, k \in 0..MaxWrong}

\* the texts the AI collaborator answers with
ResponseTexts == {<<"report">>, <<" ", "report", "\n">>, <<"a", " ", "report">>, <<"\n">>, <<>>}

CallGenerateDetailedFieldAnalysis ==
    /\ fn = FnIdle
    /\ \E keyPresent \in BOOLEAN, testData \in TestDataInputs :
          fn' = StartFieldAnalysis(keyPresent, testData, "Test")
    /\ UNCHANGED <<company, application, assessmentStages, now, req>>

\* model.generateContent answers
FieldAnalysisReturns ==
    /\ fn.op = "generateDetailedFieldAnalysis"
    /\ fn.pc = "generateContent"
    /\ \E responseText \in ResponseTexts : fn' = ReturnFieldAnalysis(fn, responseText)
    /\ UNCHANGED <<company, application, assessmentStages, now, req>>

\* model.generateContent, or reading the text of its response, throws
FieldAnalysisThrows ==
    /\ fn.op = "generateDetailedFieldAnalysis"
    /\ fn.pc = "generateContent"
    /\ fn' = CatchFieldAnalysis(fn)
    /\ UNCHANGED <<company, application, assessmentStages, now, req>>

\* the statistics handed to generateComprehensiveSummary: up to MaxTopics
\* topics with counts on both sides of the 60%, 70% and 80% breakpoints
TopicCounts == {<<0, 0>>, <<1, 2>>, <<2, 3>>, <<7, 10>>, <<3, 3>>, <<16, 23>>}

TopicLabels == <<"Quantitative", "Logical", "Verbal", "Coding">>

StatsScores == {0, 65, 75, 90}

RECURSIVE SumOfTotals(_)
SumOfTotals(topics) ==
    IF topics = <<>> THEN 0 ELSE topics[Len(topics)].total + SumOfTotals(Front(topics))

StatsInputs ==
    UNION {{[score |-> sc, accuracy |-> sc,
             totalQuestions |-> SumOfTotals([i \in 1..n |->
                                   [topic |-> TopicLabels[i], correct |-> counts[i][1],
                                    total |-> counts[i][2]]]),
             topics |-> [i \in 1..n |->
                            [topic |-> TopicLabels[i], correct |-> counts[i][1],
                             total |-> counts[i][2]]]] :
               counts \in [1..n -> TopicCounts], sc \in StatsScores} :
           n \in 0..MaxTopics}

\* the texts the AI collaborator answers the summary prompt with
SummaryTexts ==
    {<<Open, Member("performanceOverview", "v"), Member("strengthsAnalysis", "v"),
       Member("weaknessAnalysis", "v"), Member("topicBreakdown", "v"),
       Member("studyRecommendations", "v"), Member("actionPlan", "v"),
       Member("motivationalMessage", "v"), Close>>,
     <<Prose("Here"), Prose("fence json"), Open, Member("performanceOverview", "v"),
       Member("strengthsAnalysis", "v"), Close, Prose("fence")>>,
     <<Open, Close>>,
     <<Open, Member("performanceOverview", ""), Member("actionPlan", "v"), Close>>,
     <<Open, Member("extra", "v"), Member("actionPlan", ""), Member("actionPlan", "w"), Close>>,
     <<Prose("Sorry")>>,
     <<>>,
     <<Literal("null")>>,
     <<Literal("42")>>,
     <<Open, Prose("note"), Close, Open, Member("performanceOverview", "v"), Close>>,
     <<Close, Prose("then"), Open>>,
     <<Open, Member("performanceOverview", "v")>>}

CallGenerateComprehensiveSummary ==
    /\ fn = FnIdle
    /\ \E keyPresent \in BOOLEAN, stats \in StatsInputs :
          fn' = StartSummary(keyPresent, stats, "Test")
    /\ UNCHANGED <<company, application, assessmentStages, now, req>>

\* model.generateContent answers
SummaryReturns ==
    /\ fn.op = "generateComprehensiveSummary"
    /\ fn.pc = "generateContent"
    /\ \E responseText \in SummaryTexts : fn' = ReturnSummary(fn, responseText)
    /\ UNCHANGED <<company, application, assessmentStages, now, req>>

\* model.generateContent, or reading the text of its response, throws
SummaryThrows ==
    /\ fn.op = "generateComprehensiveSummary"
    /\ fn.pc = "generateContent"
    /\ fn' = CatchSummary(fn, "threw")
    /\ UNCHANGED <<company, application, assessmentStages, now, req>>

\* a passing chain: determineNextStage iterated with isPassed = true from
\* the first stage of a pipeline until it answers 'completed'
ChainStart ==
    /\ fn = FnIdle
    /\ \E c \in {"TCS", "Wipro"} :
          fn' = [op |-> "chain", company |-> c, visited |-> <<FirstStage(c)>>]
    /\ UNCHANGED <<company, application, assessmentStages, now, req>>

ChainStep ==
    /\ fn.op = "chain"
    /\ fn.visited[Len(fn.visited)] # "completed"
    /\ fn' = [fn EXCEPT !.visited =
                 Append(@, determineNextStage(fn.company, fn.visited[Len(fn.visited)], TRUE))]
    /\ UNCHANGED <<company, application, assessmentStages, now, req>>

\* the words the question texts are made of: keywords of one list, of two
\* lists, of none, and one that contains "read"
Vocabulary == {"Code", "percentage", "table", "error", "the", "reading"}

FillerWords == 20

\* a text of 99 characters and one of 100, without a keyword
Filler99 == [i \in 1..FillerWords |-> "text"]
Filler100 == [i \in 1..FillerWords |-> IF i = 1 THEN "texts" ELSE "text"]

ProfitText == <<"Find", "the", "profit", "percentage", "if", "cost", "is", "200",
                "and", "sell", "is", "250">>

ShortTexts ==
    {<<>>, ProfitText} \cup {<<w>> : w \in Vocabulary}
        \cup {<<v, w>> : v \in Vocabulary, w \in Vocabulary}

TextInputs ==
    ShortTexts \cup {Filler99} \cup {t \o Filler100 : t \in ShortTexts}

CallCategorizeQuestionByContent ==
    /\ fn = FnIdle
    /\ \E text \in TextInputs :
          fn' = [op |-> "categorizeQuestionByContent", text |-> text,
                 scores |-> IF text = <<>> THEN <<>> ELSE Scores(text),
                 result |-> categorizeQuestionByContent(text)]
    /\ UNCHANGED <<company, application, assessmentStages, now, req>>

\* the fallback report on any number of questions and any list of up to
\* MaxReportWrong wrong questions
ReportWrongInputs ==
    UNION {{wq \in [1..n -> [id : 1..n, text : WrongTexts, category : {"General"},
                             userAnswer : {"B"}, correctAnswer : {"A"}]] :
               \A i \in 1..n : wq[i].id = i} :
           n \in 0..MaxReportWrong}

ReportTestData(wrongQuestions, totalQuestions) ==
    LET wrong   == Len(wrongQuestions)
        correct == IF totalQuestions > wrong THEN totalQuestions - wrong ELSE 0
    IN  [score             |-> IF totalQuestions > 0 THEN RoundPct(correct, totalQuestions) ELSE 0,
         totalQuestions    |-> totalQuestions,
         correct           |-> correct,
         wrong             |-> wrong,
         categoryBreakdown |-> <<>>,
         wrongQuestions    |-> wrongQuestions]

CallGenerateMockCategoryWiseAnalysis ==
    /\ fn = FnIdle
    /\ \E wq \in ReportWrongInputs, totalQuestions \in 0..MaxReportTotal :
          LET testData == ReportTestData(wq, totalQuestions)
          IN  fn' = [op |-> "generateMockCategoryWiseAnalysis", testData |-> testData,
                     result |-> generateMockCategoryWiseAnalysis(testData, "Test")]
    /\ UNCHANGED <<company, application, assessmentStages, now, req>>

\* findTestForStage applied to every company and stage name
CallFindTestForStage ==
    /\ fn = FnIdle
    /\ \E c \in Companies, s \in StageNames :
          fn' = [op |-> "findTestForStage", company |-> c, stage |-> s,
                 test |-> findTestForStage(c, s)]
    /\ UNCHANGED <<company, application, assessmentStages, now, req>>

NextFn ==
    \/ CallCalculatePassStatus
    \/ CallFindTestForStage
    \/ CallCategorizeQuestionByContent
    \/ CallGenerateMockCategoryWiseAnalysis
    \/ CallDetermineNextStage
    \/ CallIsLastStage
    \/ CallAssignTrack
    \/ CallCalculateDetailedScore
    \/ CallCalculateDetailedScoreOneCategory
    \/ CallGenerateDetailedFieldAnalysis
    \/ FieldAnalysisReturns
    \/ FieldAnalysisThrows
    \/ CallGenerateComprehensiveSummary
    \/ SummaryReturns
    \/ SummaryThrows
    \/ ChainStart
    \/ ChainStep

SpecFn == InitFn /\ [][NextFn]_vars

(***************************************************************************)
(* SpecAll: a behaviour either serves requests or applies the functions     *)
(***************************************************************************)
NoRequestYet == \A r \in Req : req[r].pc = "idle"

NextAll ==
    \/ fn = FnIdle /\ Next
    \/ NoRequestYet /\ NextFn

SpecAll == Init /\ [][NextAll]_vars

(***************************************************************************)
(* Properties                                                               *)
(***************************************************************************)
\* the stored AssessmentStage rows of a stage name that carry a submission
\* timestamp
SubmittedRows(stageName) ==
    {i \in 1..Len(assessmentStages) :
        assessmentStages[i].stageName = stageName /\ assessmentStages[i].submittedAt # 0}

\* request r has answered with success
Succeeded(r) == req[r].pc = "done" /\ req[r].response.status = 200

\* the six (company, stage) combinations with a pass threshold
HasThreshold(c, s) ==
    \/ c = "TCS" /\ s \in {"foundation", "advanced", "coding"}
    \/ c = "Wipro" /\ s \in {"aptitude", "essay", "coding"}

\* C1: a submission that arrives (authorised, application found and read)
\* for a stage whose stored result already has submittedAt set is answered
\* 400 'Stage already completed' in that same step, and neither the stage
\* rows nor the application record change.
C1_ResubmissionRejected ==
    [][\A r \in Req :
          ( /\ req[r].pc = "idle"
            /\ req'[r].pc # "idle"
            /\ req'[r].response.status \notin {401, 403, 404, 500}
            /\ SubmittedRows(req'[r].stageName) # {} )
          => /\ req'[r].pc = "done"
             /\ req'[r].response = ErrorResponse(400, "Stage already completed")
             /\ ~req'[r].wroteStage /\ ~req'[r].wroteTrack
             /\ assessmentStages' = assessmentStages
             /\ application' = application]_vars

C1_Witness ==
    \E r \in Req :
        /\ req[r].pc = "done"
        /\ req[r].response = ErrorResponse(400, "Stage already completed")
        /\ SubmittedRows(req[r].stageName) # {}

\* C2: of two submissions for the same stage of the application at most
\* one succeeds, and at most one stage result is written for that stage.
C2_AtMostOneSucceeds ==
    \A r1, r2 \in Req :
        (r1 # r2 /\ req[r1].stageName = req[r2].stageName /\ req[r1].stageName # Null)
        => /\ ~(req[r1].wroteStage /\ req[r2].wroteStage)
           /\ ~(Succeeded(r1) /\ Succeeded(r2))

\* C3: finalTrack is written at most once, and only when the interview
\* stage (the last stage before 'completed') has been submitted and passed.
C3_TrackOnceAfterInterview ==
    /\ Cardinality({r \in Req : req[r].wroteTrack}) <= 1
    /\ application.finalTrack # Null =>
           \E i \in SubmittedRows("interview") : assessmentStages[i].isPassed

\* C4: a request writes finalTrack only if its stage passed and the stage
\* after it is a last stage, and it then answers with success; finalTrack is
\* set by no other path.
C4_TrackOnlyOnPassedLastStage ==
    /\ \A r \in Req :
          req[r].wroteTrack =>
              /\ req[r].isPassed
              /\ isLastStage(company, determineNextStage(company, req[r].stageName, TRUE))
              /\ Succeeded(r)
    /\ application.finalTrack # Null => \E r \in Req : req[r].wroteTrack

C4_Witness ==
    /\ application.finalTrack # Null
    /\ \E r \in Req : req[r].wroteTrack /\ req[r].isPassed
    /\ \E r \in Req : Succeeded(r) /\ ~req[r].isPassed /\ ~req[r].wroteTrack

\* the ordered stage list of a pipeline company
StageList(c) == IF c = "TCS" THEN TCSStages ELSE WiproStages

\* C5: for TCS and Wipro, determineNextStage(company, s, true) of a stage s
\* of the company's list is the stage right after s, or 'completed' for the
\* last entry; the passing chain from the first stage is the list itself,
\* in order, ending at 'completed'.
C5_NextStageFollowsList ==
    /\ ( /\ fn.op = "determineNextStage"
         /\ fn.isPassed
         /\ fn.company \in {"TCS", "Wipro"} )
       => \A i \in 1..Len(StageList(fn.company)) :
              StageList(fn.company)[i] = fn.currentStage
              => fn.result = IF i < Len(StageList(fn.company))
                             THEN StageList(fn.company)[i + 1]
                             ELSE "completed"
    /\ fn.op = "chain" =>
          /\ Len(fn.visited) <= Len(StageList(fn.company))
          /\ fn.visited = SubSeq(StageList(fn.company), 1, Len(fn.visited))

C5_Witness ==
    /\ fn.op = "chain"
    /\ fn.company = "Wipro"
    /\ fn.visited = WiproStages

\* C6: calculatePassStatus is true exactly at the thresholds: TCS foundation
\* >= 60 %, TCS advanced >= 65 %, TCS coding score >= 2, Wipro aptitude
\* >= 65 %, Wipro essay >= 70 %, Wipro coding score >= 1.
C6_PassThresholds ==
    fn.op = "calculatePassStatus" =>
        LET atLeast(k) == fn.percentage.num >= k * fn.percentage.den
        IN  /\ (fn.company = "TCS" /\ fn.stageName = "foundation") => (fn.result <=> atLeast(60))
            /\ (fn.company = "TCS" /\ fn.stageName = "advanced") => (fn.result <=> atLeast(65))
            /\ (fn.company = "TCS" /\ fn.stageName = "coding") => (fn.result <=> fn.score >= 2)
            /\ (fn.company = "Wipro" /\ fn.stageName = "aptitude") => (fn.result <=> atLeast(65))
            /\ (fn.company = "Wipro" /\ fn.stageName = "essay") => (fn.result <=> atLeast(70))
            /\ (fn.company = "Wipro" /\ fn.stageName = "coding") => (fn.result <=> fn.score >= 1)

C6_Witness ==
    /\ fn.op = "calculatePassStatus"
    /\ fn.company = "TCS" /\ fn.stageName = "foundation"
    /\ fn.percentage = Pct(65, 1) /\ fn.score = 13
    /\ fn.result = TRUE

\* C7: for every (company, stage) without a threshold calculatePassStatus
\* is false whatever the percentage and score, a submission of such a stage
\* is scored as not passed, and the handler's application update marks the
\* application rejected and leaves it at the submitted stage.
C7_FailClosed ==
    [][ /\ ( /\ fn'.op = "calculatePassStatus"
             /\ ~HasThreshold(fn'.company, fn'.stageName) )
           => fn'.result = FALSE
        /\ \A r \in Req :
              ( /\ req'[r].pc \notin {"idle", "done"}
                /\ ~HasThreshold(company, req'[r].stageName) )
              => ~req'[r].isPassed
        /\ \A r \in Req :
              ( /\ req[r].pc = "update"
                /\ req'[r].pc = "done"
                /\ req'[r].response.status = 200
                /\ ~HasThreshold(company, req[r].stageName) )
              => /\ application'.status = "rejected"
                 /\ application'.finalDecision = "rejected"
                 /\ application'.currentStage = req[r].stageName
                 /\ application'.finalTrack = application.finalTrack
                 /\ ~req'[r].isPassed
                 /\ req'[r].response.nextStage = Null ]_vars

C7_Witness ==
    /\ company = "TCS"
    /\ application.status = "rejected"
    /\ application.currentStage = "interview"
    /\ \E r \in Req : Succeeded(r) /\ req[r].stageName = "interview" /\ ~req[r].isPassed

\* C8 as claimed: isLastStage is true iff the stage is 'interview' or
\* 'completed', whatever the company.
C8_LastStageAnyCompany ==
    fn.op = "isLastStage" => (fn.result <=> fn.stage \in {"interview", "completed"})

\* C8 as amended: for TCS and Wipro isLastStage is true iff the stage is
\* 'interview' or 'completed'; for every other company it is false.
C8_LastStageKnownCompany ==
    fn.op = "isLastStage" =>
        IF fn.company \in {"TCS", "Wipro"}
        THEN fn.result <=> fn.stage \in {"interview", "completed"}
        ELSE fn.result = FALSE

C8_Witness ==
    /\ fn.op = "isLastStage"
    /\ fn.company = "Infosys" /\ fn.stage = "interview"
    /\ fn.result = FALSE

\* the 'coding' results of a collection (at most one: one result per stage)
CodingResults(stages) == {i \in 1..Len(stages) : stages[i].stageName = "coding"}

\* C9: for TCS assignTrack answers 'Digital' if there is a coding result
\* with a percentage >= 83 and 'Ninja' otherwise.
C9_TCSTrack ==
    (fn.op = "assignTrack" /\ fn.company = "TCS") =>
        fn.result = IF \E i \in CodingResults(fn.stages) :
                          /\ ~fn.stages[i].percentage.isNull
                          /\ fn.stages[i].percentage.num >= 83 * fn.stages[i].percentage.den
                     THEN "Digital"
                     ELSE "Ninja"

C9_Witness ==
    /\ fn.op = "assignTrack" /\ fn.company = "TCS"
    /\ \E i \in CodingResults(fn.stages) : fn.stages[i].percentage = Pct(85, 1)
    /\ fn.result = "Digital"

\* three times the sum of the percentages (each is a whole number or a
\* number of thirds), a missing percentage counted as 0
RECURSIVE ThriceSum(_)
ThriceSum(stages) ==
    IF stages = <<>> THEN 0
    ELSE LET p == stages[1].percentage
         IN  (IF p.isNull THEN 0 ELSE p.num * (3 \div p.den))
             + ThriceSum(Tail(stages))

\* C10: for Wipro and a non-empty collection assignTrack answers 'Turbo' if
\* the mean percentage is >= 80 and 'Elite' otherwise; for a company other
\* than TCS and Wipro it answers 'Standard'.
C10_WiproTrack ==
    /\ (fn.op = "assignTrack" /\ fn.company = "Wipro" /\ fn.stages # <<>>) =>
          fn.result = IF ThriceSum(fn.stages) >= 80 * 3 * Len(fn.stages)
                      THEN "Turbo"
                      ELSE "Elite"
    /\ (fn.op = "assignTrack" /\ fn.company \notin {"TCS", "Wipro"}) =>
          fn.result = "Standard"

C10_Witness ==
    /\ fn.op = "assignTrack" /\ fn.company = "Wipro"
    /\ Len(fn.stages) = 2
    /\ fn.stages[1].percentage = Pct(79, 1)
    /\ fn.stages[2].percentage = Pct(81, 1)
    /\ fn.result = "Turbo"

\* the questions of the last calculateDetailedScore call whose submitted
\* answer equals the text of an option flagged correct
Matching ==
    {i \in 1..Len(fn.questions) :
        /\ i \in DOMAIN fn.answers
        /\ \E j \in 1..Len(fn.questions[i].options) :
              /\ fn.questions[i].options[j].isCorrect
              /\ fn.questions[i].options[j].text = fn.answers[i]}

\* C11: calculateDetailedScore counts a question correct exactly when it has
\* an option flagged correct and the submitted answer equals that option's
\* text; every other question appears in wrongQuestions, in question order,
\* with userAnswer 'Not answered' when no answer was submitted
C11_CorrectIffMatch ==
    fn.op = "calculateDetailedScore" =>
        LET wrong == fn.result.wrongQuestions
            n     == Len(fn.questions)
        IN  /\ fn.result.totalCorrect = Cardinality(Matching)
            /\ Len(wrong) = n - Cardinality(Matching)
            /\ {wrong[k].id : k \in 1..Len(wrong)} = (1..n) \ Matching
            /\ \A k, l \in 1..Len(wrong) : k < l => wrong[k].id < wrong[l].id
            /\ \A k \in 1..Len(wrong) :
                  /\ wrong[k].id \notin DOMAIN fn.answers => wrong[k].userAnswer = "Not answered"
                  /\ wrong[k].id \in DOMAIN fn.answers =>
                        wrong[k].userAnswer = fn.answers[wrong[k].id]

\* a call with one matching answer, one question left out, one answered
\* with another text and one with no option flagged correct
C11_Witness ==
    /\ fn.op = "calculateDetailedScore"
    /\ Len(fn.questions) = 3
    /\ fn.questions[1].options = Options /\ fn.questions[2].options = Options
    /\ fn.questions[3].options = NoCorrectOptions
    /\ fn.answers = (1 :> "A") @@ (3 :> "A")
    /\ fn.result.totalCorrect = 1
    /\ Len(fn.result.wrongQuestions) = 2
    /\ fn.result.wrongQuestions[1].userAnswer = "Not answered"

RECURSIVE SumTotals(_, _)
SumTotals(breakdown, categories) ==
    IF categories = {} THEN 0
    ELSE LET c == CHOOSE x \in categories : TRUE
         IN  breakdown[c].total + SumTotals(breakdown, categories \ {c})

\* C12: the per-category totals returned by calculateDetailedScore add up
\* to totalQuestions, the number of questions scored, and the questions
\* with no stored category are counted under 'General'
C12_CategoryTotalsSum ==
    fn.op = "calculateDetailedScore" =>
        LET breakdown == fn.result.categoryBreakdown
            n         == Len(fn.questions)
            InCategory(c) == {i \in 1..n : fn.questions[i].category = c}
        IN  /\ fn.result.totalQuestions = n
            /\ SumTotals(breakdown, DOMAIN breakdown) = n
            /\ \A c \in QuestionCategories \ {Null} :
                  IF InCategory(c) = {} THEN c \notin DOMAIN breakdown
                  ELSE breakdown[c].total = Cardinality(InCategory(c))
            /\ IF InCategory(Null) = {} THEN "General" \notin DOMAIN breakdown
               ELSE breakdown["General"].total = Cardinality(InCategory(Null))

\* a call with two uncategorised questions and one categorised one
C12_Witness ==
    /\ fn.op = "calculateDetailedScore"
    /\ Len(fn.questions) = 3
    /\ fn.questions[1].category = Null
    /\ fn.questions[2].category = "Logical"
    /\ fn.questions[3].category = Null
    /\ fn.result.categoryBreakdown["General"].total = 2
    /\ fn.result.categoryBreakdown["Logical"].total = 1
    /\ fn.result.totalQuestions = 3

\* C13: in every category of the breakdown 0 <= correct <= total and
\* 0 <= percentage <= 100, the percentage is correct / total * 100 rounded
\* to the nearest integer with halves rounded up, and 0 when total is 0;
\* with zero questions the overall percentage is 0
C13_CategoryPercentage ==
    fn.op = "calculateDetailedScore" =>
        LET breakdown == fn.result.categoryBreakdown
        IN  /\ \A c \in DOMAIN breakdown :
                  /\ 0 <= breakdown[c].correct
                  /\ breakdown[c].correct <= breakdown[c].total
                  /\ 0 <= breakdown[c].percentage
                  /\ breakdown[c].percentage <= 100
                  /\ breakdown[c].percentage =
                        IF breakdown[c].total = 0 THEN 0
                        ELSE (200 * breakdown[c].correct + breakdown[c].total)
                                 \div (2 * breakdown[c].total)
            /\ fn.questions = <<>> => fn.percentage = Pct(0, 1)


\* the stage list of the application's company; empty for a company with
\* no pipeline
CompanyStages == IF company \in {"TCS", "Wipro"} THEN StageList(company) ELSE <<>>

\* C14: the stages with a submitted result follow the company's stage
\* order: every submitted stage is in the company's list, and every stage
\* before it in the list has a submitted result that passed
C14_SubmittedInStageOrder ==
    \A i \in 1..Len(assessmentStages) :
        assessmentStages[i].submittedAt # 0 =>
            \E n \in 1..Len(CompanyStages) :
                /\ CompanyStages[n] = assessmentStages[i].stageName
                /\ \A k \in 1..(n - 1) :
                      \E j \in SubmittedRows(CompanyStages[k]) : assessmentStages[j].isPassed

\* C15: the step that updates the application for a stage that did not
\* pass sets status and finalDecision to 'rejected', leaves currentStage at
\* the submitted stage and finalTrack as it was, and answers isPassed false
\* with nextStage null, without a track step
C15_FailedStageRejects ==
    [][\A r \in Req :
          (/\ req[r].pc = "update"
           /\ ~req[r].isPassed
           /\ req'[r] # req[r]
           /\ req'[r].response.status # 500)
          => /\ application'.status = "rejected"
             /\ application'.finalDecision = "rejected"
             /\ application'.currentStage = req[r].stageName
             /\ application'.finalTrack = application.finalTrack
             /\ req'[r].pc = "done"
             /\ ~req'[r].wroteTrack
             /\ req'[r].response.status = 200
             /\ req'[r].response.isPassed = FALSE
             /\ req'[r].response.nextStage = Null]_vars

\* a Wipro coding submission with no correct answer has been answered
C15_Witness ==
    \E r \in Req :
        /\ company = "Wipro"
        /\ req[r].pc = "done"
        /\ req[r].stageName = "coding"
        /\ req[r].response.status = 200
        /\ req[r].response.isPassed = FALSE
        /\ req[r].response.score = 0
        /\ req[r].response.nextStage = Null
        /\ application.status = "rejected"
        /\ application.currentStage = "coding"
        /\ application.finalTrack = Null

\* C16: generateDetailedFieldAnalysis calls the AI collaborator at most
\* once and not at all without a key; it returns the fallback report
\* generateMockCategoryWiseAnalysis(testData, testTitle) when the key is
\* absent or the call throws, and the text it was given, trimmed, otherwise
C16_FieldAnalysisFallsBack ==
    fn.op = "generateDetailedFieldAnalysis" =>
        /\ fn.aiCalls <= 1
        /\ ~fn.keyPresent => fn.pc = "returned" /\ fn.aiCalls = 0 /\ fn.outcome = "key absent"
        /\ fn.pc = "returned" =>
              /\ fn.outcome \in {"key absent", "threw", "text"}
              /\ fn.outcome \in {"key absent", "threw"} =>
                    fn.result = generateMockCategoryWiseAnalysis(fn.testData, fn.testTitle)
              /\ fn.outcome = "text" =>
                    /\ fn.aiCalls = 1
                    /\ fn.result = Trim(fn.responseText)
                    /\ fn.result # <<>> =>
                          /\ Head(fn.result) \notin WhiteSpace
                          /\ fn.result[Len(fn.result)] \notin WhiteSpace

\* the AI call has thrown once and the fallback report of two wrong
\* questions of different categories has been returned
C16_Witness ==
    /\ fn.op = "generateDetailedFieldAnalysis"
    /\ fn.pc = "returned"
    /\ fn.outcome = "threw"
    /\ fn.aiCalls = 1
    /\ Len(fn.testData.wrongQuestions) = 2
    /\ fn.result.report = "categories"
    /\ Len(fn.result.categories) = 2

\* the response text is a JSON object, an opening brace, members and a
\* closing brace, with nothing but prose and code fences around it
WrappedObject(text) ==
    \E a, b \in 1..Len(text) :
        /\ a < b
        /\ text[a].kind = "{"
        /\ text[b].kind = "}"
        /\ \A i \in 1..Len(text) :
              text[i].kind = IF i < a \/ i > b THEN "prose"
                             ELSE IF i = a THEN "{"
                             ELSE IF i = b THEN "}"
                             ELSE "member"

\* the value the object of the response text gives a name: that of the
\* last member of that name
ValueIn(text, name) ==
    LET at == {i \in 1..Len(text) : text[i].kind = "member" /\ text[i].name = name}
    IN  IF at = {} THEN ""
        ELSE text[CHOOSE i \in at : \A j \in at : j <= i].value

\* C17: generateComprehensiveSummary returns all seven fields for every
\* outcome of the AI collaborator and calls it at most once; the result is
\* getMockComprehensiveSummary(stats, testTitle) when the key is absent,
\* the call throws, or the text is neither a JSON value nor a JSON object
\* wrapped in prose; for a wrapped JSON object each field is the object's
\* value, or its fixed default when the value is missing or falsy
C17_SummaryComplete ==
    (fn.op = "generateComprehensiveSummary" /\ fn.pc = "returned") =>
        LET text == fn.responseText
        IN  /\ DOMAIN fn.result = FieldNames
            /\ fn.aiCalls <= 1
            /\ ~fn.keyPresent => fn.aiCalls = 0
            /\ (\/ fn.outcome \in {"key absent", "threw"}
                \/ ~WrappedObject(text) /\ ~(Len(text) = 1 /\ text[1].kind = "literal"))
               => fn.result = getMockComprehensiveSummary(fn.stats, fn.testTitle)
            /\ (fn.outcome # "threw" /\ fn.keyPresent /\ WrappedObject(text)) =>
                  \A name \in FieldNames :
                      fn.result[name] =
                          IF ValueIn(text, name) # ""
                          THEN [source |-> "ai", text |-> ValueIn(text, name)]
                          ELSE Default(name)

\* a JSON object wrapped in prose and code fences has been used, with a
\* missing field replaced by its default
C17_Witness ==
    /\ fn.op = "generateComprehensiveSummary"
    /\ fn.pc = "returned"
    /\ fn.outcome = "JSON"
    /\ fn.responseText[1].kind = "prose"
    /\ fn.responseText[Len(fn.responseText)].kind = "prose"
    /\ fn.result["performanceOverview"] = [source |-> "ai", text |-> "v"]
    /\ fn.result["actionPlan"] = Default("actionPlan")

\* C18: the track stored on completion takes the stage just submitted into
\* account: when a TCS coding submission with a percentage of 83 or more
\* has completed the pipeline, the stored finalTrack is 'Digital'
C18_TrackUsesSubmittedStage ==
    (/\ company = "TCS"
     /\ \E r \in Req :
           req[r].pc = "done" /\ req[r].wroteTrack /\ req[r].stageName = "coding"
     /\ SubmittedRows("coding") # {}
     /\ \A i \in SubmittedRows("coding") : PctGE(assessmentStages[i].percentage, 83))
    => application.finalTrack = "Digital"

\* the submissions (stage name and answers) that the handler scores as
\* passed and as completing the pipeline of company c
CompletingSubmissions(c) ==
    {sub \in StageNames \X AnswerInputs :
        LET test       == findTestForStage(c, sub[1])
            questions  == IF test # NoTest THEN QuestionsOf(test) ELSE <<>>
            scoreData  == calculateDetailedScore(sub[2], questions)
            isPassed   == calculatePassStatus(c, sub[1], PercentageOf(scoreData),
                                              scoreData.totalCorrect)
        IN  AllStagesCompleted(c, isPassed, determineNextStage(c, sub[1], isPassed))}

\* C19: completion is reachable for TCS and for Wipro: a candidate whose
\* submissions so far have all passed, and whose application is neither
\* rejected nor completed, has some stage submission with suitable answers
\* that passes and completes the pipeline
C19_CompletionReachable ==
    (/\ company \in {"TCS", "Wipro"}
     /\ application.status \notin {"rejected", "completed"}
     /\ \A r \in Req : Succeeded(r) /\ req[r].response.isPassed)
    => CompletingSubmissions(company) # {}

\* C20: finalDecision is written only by the track assignment, so no state
\* has a finalTrack together with the finalDecision 'rejected'
C20_NoTrackWithRejection ==
    ~(application.finalTrack # Null /\ application.finalDecision = "rejected")

\* request r read the application after a failed stage result was stored
ReadAfterFailure(r) ==
    \E i \in 1..Len(req[r].stages) :
        req[r].stages[i].submittedAt # 0 /\ ~req[r].stages[i].isPassed

\* C21: rejection is terminal: when the status is 'rejected', a step of a
\* submission that arrived after the failed stage was stored leaves the
\* status 'rejected' and assigns no finalTrack
C21_RejectionTerminal ==
    [][\A r \in Req :
          (/\ application.status = "rejected"
           /\ ReadAfterFailure(r)
           /\ req'[r] # req[r])
          => /\ application'.status = "rejected"
             /\ application'.finalTrack = application.finalTrack]_vars


\* C22: a submission that answers with the generic failure has written
\* nothing: neither its stage result nor a finalTrack
C22_FailureWritesNothing ==
    \A r \in Req :
        (req[r].pc = "done" /\ req[r].response.status = 500)
        => ~req[r].wroteStage /\ ~req[r].wroteTrack

\* C23: findTestForStage(company, stageName) returns null or a test of the
\* company it was asked for
C23_TestOfOwnCompany ==
    (fn.op = "findTestForStage" /\ fn.test # NoTest)
    => fn.test.company = fn.company

\* request r is between its reads and its response
InFlight(r) == req[r].pc \in {"upsert", "essay", "update", "track"}

\* two submissions of the same stage with the same answers and essay, made
\* against the same application state
SameSubmission(r1, r2) ==
    /\ InFlight(r1) /\ InFlight(r2)
    /\ req[r1].stageName = req[r2].stageName
    /\ req[r1].answers = req[r2].answers
    /\ req[r1].essayText = req[r2].essayText
    /\ req[r1].stages = req[r2].stages

\* C24: two submissions that differ only in the body's score and total
\* compute the same score, percentage and pass status, store the same
\* stage data and give the same next stage and response
C24_ClientScoreIgnored ==
    \A r1 \in Req, r2 \in Req :
        SameSubmission(r1, r2)
        => LET n1 == determineNextStage(company, req[r1].stageName, req[r1].isPassed)
               n2 == determineNextStage(company, req[r2].stageName, req[r2].isPassed)
           IN  /\ req[r1].scoreData = req[r2].scoreData
               /\ req[r1].percentage = req[r2].percentage
               /\ req[r1].isPassed = req[r2].isPassed
               /\ StageData(r1) = StageData(r2)
               /\ n1 = n2
               /\ SuccessResponse(r1, n1) = SuccessResponse(r2, n2)

\* both submissions have stored their stage data; one sent no score, the
\* other claimed a full score although its answers are wrong
C24_Witness ==
    \E r1 \in Req, r2 \in Req :
        /\ SameSubmission(r1, r2)
        /\ req[r1].body = NoBody /\ req[r2].body.score = MaxQuestions
        /\ req[r1].scoreData.totalCorrect = 0
        /\ req[r1].scoreData.totalQuestions > 0
        /\ req[r1].wroteStage /\ req[r2].wroteStage

\* round(score / total * 100) with halves up, 0 when total = 0
RoundedPercentage(score, total) ==
    IF total > 0 THEN (200 * score + total) \div (2 * total) ELSE 0

\* C25: the percentage stored in a stage result is the rounded integer
\* round(score / total * 100), and 0 when total = 0
C25_StoredPercentageRounded ==
    \A i \in 1..Len(assessmentStages) :
        LET row == assessmentStages[i]
        IN  row.submittedAt # 0
            => /\ ~row.percentage.isNull
               /\ row.percentage.num =
                      RoundedPercentage(row.score, row.total) * row.percentage.den

\* the categories with a keyword list, in the order of the scores object
CategoryOrder ==
    <<"Quantitative Aptitude", "Logical Reasoning", "Verbal & Reading",
      "Programming/Coding", "Data Interpretation">>

KeywordsOf(n) ==
    <<quantKeywords, logicKeywords, verbalKeywords, codingKeywords, dataKeywords>>[n]

\* the number of words of the text that are keywords of the n-th category
Hits(text, n) ==
    Cardinality({i \in 1..Len(text) : ToLowerCase(text[i]) \in KeywordsOf(n)})

NoHits(text) == \A n \in 1..Len(CategoryOrder) : Hits(text, n) = 0

\* C26: every category scores twice its keyword hits, and a text with a hit
\* gets the first category of the fixed order that has the highest score; a
\* text whose only hit is 'code' is 'Logical Reasoning', the profit example
\* is 'Quantitative Aptitude'
C26_HighestScoreFirstWins ==
    (fn.op = "categorizeQuestionByContent" /\ fn.text # <<>>)
    => /\ \A n \in 1..Len(CategoryOrder) :
              /\ fn.scores[n].category = CategoryOrder[n]
              /\ fn.scores[n].score = 2 * Hits(fn.text, n)
       /\ ~NoHits(fn.text)
            => \E n \in 1..Len(CategoryOrder) :
                  /\ fn.result = CategoryOrder[n]
                  /\ \A m \in 1..Len(CategoryOrder) : Hits(fn.text, m) <= Hits(fn.text, n)
                  /\ \A m \in 1..(n - 1) : Hits(fn.text, m) < Hits(fn.text, n)
       /\ fn.text = <<"Code">> => fn.result = "Logical Reasoning"
       /\ fn.text = ProfitText => fn.result = "Quantitative Aptitude"

\* a keyword of two lists: both score 2 and the earlier category is returned
C26_Witness ==
    /\ fn.op = "categorizeQuestionByContent"
    /\ fn.text = <<"Code">>
    /\ fn.scores[2].score = 2 /\ fn.scores[4].score = 2
    /\ fn.result = "Logical Reasoning"

Labels ==
    {"Quantitative Aptitude", "Logical Reasoning", "Verbal & Reading",
     "Programming/Coding", "Data Interpretation", "General Reasoning",
     "General Knowledge"}

\* C27: the result is one of the seven labels; a missing or empty text is
\* 'General Knowledge'; without a keyword hit a text under 100 characters
\* is 'General Reasoning', a longer one containing 'passage' or 'read' is
\* 'Verbal & Reading', any other is 'General Knowledge'; 'General
\* Reasoning' comes from the under-100 rule only
C27_FallbackLabels ==
    fn.op = "categorizeQuestionByContent"
    => /\ fn.result \in Labels
       /\ fn.text = <<>> => fn.result = "General Knowledge"
       /\ (fn.text # <<>> /\ NoHits(fn.text))
            => fn.result =
                  IF TextLength(fn.text) < 100 THEN "General Reasoning"
                  ELSE IF IncludesPassageOrRead(fn.text) THEN "Verbal & Reading"
                  ELSE "General Knowledge"
       /\ fn.result = "General Reasoning"
            => (fn.text # <<>> /\ NoHits(fn.text) /\ TextLength(fn.text) < 100)

\* a text of 100 characters or more without a keyword that contains 'read'
C27_Witness ==
    /\ fn.op = "categorizeQuestionByContent"
    /\ NoHits(fn.text)
    /\ TextLength(fn.text) >= 100
    /\ IncludesPassageOrRead(fn.text)
    /\ fn.result = "Verbal & Reading"

\* the distinct categories of the re-categorized wrong questions
CategoriesSeen(wrongQuestions) ==
    {categorizeQuestionByContent(wrongQuestions[i].text) : i \in 1..Len(wrongQuestions)}

\* the position of the first wrong question of a category
FirstSeen(wrongQuestions, category) ==
    CHOOSE i \in 1..Len(wrongQuestions) :
        /\ categorizeQuestionByContent(wrongQuestions[i].text) = category
        /\ \A j \in 1..(i - 1) :
               categorizeQuestionByContent(wrongQuestions[j].text) # category

\* C28: with a wrong question the report lists every category seen once,
\* each with total = ceil(totalQuestions / categories seen), in ascending
\* order of accuracy, equal accuracies in first-seen order; CRITICAL FOCUS
\* names a category of minimum accuracy and MAINTAIN STRENGTH one of
\* maximum accuracy; without a wrong question the report is the fixed
\* 'Unable to categorize questions' one
C28_ReportOrder ==
    fn.op = "generateMockCategoryWiseAnalysis"
    => LET wq   == fn.testData.wrongQuestions
           seen == CategoriesSeen(wq)
           k    == Cardinality(seen)
       IN  IF wq = <<>>
           THEN fn.result.report = "Unable to categorize questions"
           ELSE LET cats == fn.result.categories
                IN  /\ fn.result.report = "categories"
                    /\ Len(cats) = k
                    /\ {cats[i].stats.category : i \in 1..Len(cats)} = seen
                    /\ \A i \in 1..Len(cats) :
                          /\ k * cats[i].stats.total >= fn.testData.totalQuestions
                          /\ k * (cats[i].stats.total - 1) < fn.testData.totalQuestions
                          /\ cats[i].stats.percentage >= fn.result.weakestCategory.percentage
                          /\ cats[i].stats.percentage <= fn.result.strongestCategory.percentage
                    /\ \A i \in 1..Len(cats), j \in 1..Len(cats) :
                          i < j
                          => /\ cats[i].stats.percentage <= cats[j].stats.percentage
                             /\ cats[i].stats.percentage = cats[j].stats.percentage
                                  => FirstSeen(wq, cats[i].stats.category)
                                         < FirstSeen(wq, cats[j].stats.category)
                    /\ \E i \in 1..Len(cats) : fn.result.weakestCategory = cats[i].stats
                    /\ \E i \in 1..Len(cats) : fn.result.strongestCategory = cats[i].stats

\* the category seen second is the weaker one and is listed first
C28_Witness ==
    /\ fn.op = "generateMockCategoryWiseAnalysis"
    /\ fn.result.report = "categories"
    /\ Len(fn.result.categories) = 2
    /\ fn.result.weakestCategory.percentage < fn.result.strongestCategory.percentage
    /\ FirstSeen(fn.testData.wrongQuestions, fn.result.weakestCategory.category)
           > FirstSeen(fn.testData.wrongQuestions, fn.result.strongestCategory.category)

\* C29: for any totalQuestions >= 0 and any non-empty list of wrong
\* questions every category has correct + wrong = total, 0 <= correct <=
\* total and an integer accuracy from 0 to 100 that is 0 when total = 0
C29_CategoryStatsConsistent ==
    (fn.op = "generateMockCategoryWiseAnalysis" /\ fn.testData.wrongQuestions # <<>>)
    => \A i \in 1..Len(fn.result.categories) :
          LET stats == fn.result.categories[i].stats
          IN  /\ stats.correct + stats.wrong = stats.total
              /\ 0 <= stats.correct /\ stats.correct <= stats.total
              /\ stats.percentage \in 0..100
              /\ stats.total = 0 => stats.percentage = 0

\* C30: the topics the prompt names as strong and as weak are the topics
\* the fallback summary classifies as strengths and as weaknesses
C30_SameBands ==
    (fn.op = "generateComprehensiveSummary" /\ fn.prompt.built)
    => /\ fn.prompt.strengths = TopicNames(MockStrengths(fn.stats))
       /\ fn.prompt.weaknesses = TopicNames(MockWeaknesses(fn.stats))

====
